---- MODULE Spec2Model ----
(***************************************************************************)
(* learnpod: the pipeline orchestrator (pipeline/orchestrator.py) with the *)
(* stage functions it drives, and the text chunker (generator/splitter.py).*)
(*                                                                         *)
(* Spec      : one PipelineOrchestrator, freshly constructed, performing   *)
(*             one run_full_pipeline call (what cli.py does).              *)
(* SplitSpec : TextSplitter.split_by_tokens applied to a bounded text.     *)
(* TtsSplitSpec : TextSplitter.split_script_for_tts applied to a script.   *)
(* MergeSpec : _merge_script_parts applied to a list of fragments.         *)
(* ScriptSpec: one build_script call, from the gate to the save.           *)
(* RetrySpec : one LLMClient.generate or TTSClient.generate_audio call.    *)
(* AudioSpec : one build_audio call, attempt by attempt.                   *)
(* FlashSpec : one _generate_flashcard_yaml call.                          *)
(* ParaSplitSpec : split_by_tokens on a text given paragraph by paragraph. *)
(* RemoveIntroSpec : one _remove_introduction call.                        *)
(* ReuseSpec : run_full_pipeline called twice on one orchestrator.         *)
(* RunSpec   : one run, generation call by generation call and attempt by  *)
(*             attempt, every step eventually taken.                       *)
(***************************************************************************)
EXTENDS Integers, Sequences, FiniteSets, TLC

VARIABLES
    \* ---- PipelineOrchestrator and its environment ----
    pc,               \* position of the flow of control in run_full_pipeline
    doc,              \* self.doc
    output_dir,       \* self.output_dir
    results,          \* self.results, the ledger
    dirs,             \* directories outputs/<timestamp>[_k] that exist on disk
    files,            \* files that exist on disk
    send_mail,        \* argument of run_full_pipeline
    has_gmail_config, \* config.has_gmail_config
    started,          \* history: the steps started, in order
    outcome,          \* history: how each step (and the flashcard sub-step) ended
    wrote,            \* history: per ledger entry, the steps that assigned it
    error,            \* the exception that left run_full_pipeline
    retval,           \* the value run_full_pipeline returned
    summary,          \* what _print_summary reported for each entry
    msgBuilt,         \* number of mail messages built
    smtpAttempts,     \* number of SMTP deliveries attempted
    run,              \* which call of run_full_pipeline on this orchestrator: "none", "first", "second"
    \* ---- TextSplitter ----
    spc,              \* position of the splitter scenario
    text,             \* argument of split_by_tokens
    chunk_size,       \* self.chunk_size
    client,           \* the llm_client argument: "none", "api", "apifail"
    chunks,           \* the list split_by_tokens returned
    \* ---- build_script ----
    bpc,              \* position of the script-stage scenario
    content_tokens,   \* the token count of the content given to build_script
    script_parts,     \* the fragments generated so far, one per chunk
    calls,            \* number of generation calls issued
    script,           \* the script: the one generated or the merged one
    did_split,        \* whether build_script called the chunker
    nchunks,          \* len(chunks), the number of chunks the chunker returned
    did_merge,        \* whether build_script called _merge_script_parts
    script_written,   \* whether script.md was written
    call_log,         \* the generation calls in call order: chunk and text returned
    \* ---- LLMClient.generate / TTSClient.generate_audio ----
    rpc,              \* position of the call: "loop", "returned", "raised"
    rclient,          \* the client called: "llm" or "tts"
    max_retries,      \* argument max_retries
    attempt,          \* the loop variable of the retry loop
    responses,        \* history: what the service answered to each attempt
    waits,            \* history: the delays slept between the attempts
    rresult,          \* the value the call returned
    rerror,           \* the exception the call raised
    \* ---- build_audio ----
    apc,              \* position of the flow of control in build_audio
    n_script_chunks,  \* len(script_chunks)
    chunk_index,      \* the chunk the loop is at, from 1
    tts_attempt,      \* the attempt of the running generate_audio call
    chunk_files,      \* content of chunks/audio_chunk_<k>.wav, by k
    audio_files,      \* the list audio_files: the k of each path collected
    produced,         \* history: the segments each successful call returned
    synthesized,      \* history: the chunks generate_audio was called for
    combine_result,   \* how _combine_audio_files ended
    podcast_wav,      \* content of podcast.wav
    ffmpeg_result,    \* how the codec tool ended
    pydub_result,     \* how the library transcoder ended
    final_path,       \* what build_audio returned
    \* ---- _generate_flashcard_yaml ----
    fpc,              \* position of the flow of control
    qa_pairs,         \* the keyword Q/A pairs the section was written from
    keyword_qa,       \* argument keyword_qa, the text of the section
    fcalls,           \* number of generation calls issued
    yaml_content,     \* the variable yaml_content
    yaml_writes,      \* history: the contents written to flashcards.yaml
    \* ---- one run at the granularity of generation calls ----
    gpc,              \* the stage the run is in
    script_calls,     \* generation calls the script stage makes: len(chunks), or 1
    narration_chunks, \* len(script_chunks) of build_audio
    calls_made,       \* calls issued so far by the loop of the stage
    gen_calls,        \* history: generation and synthesis calls of the run
    gen_attempts,     \* history: attempts of the calls that ended
    gerror            \* the stage whose exception left run_full_pipeline

orchVars  == <<pc, doc, output_dir, results, dirs, files, send_mail,
               has_gmail_config, started, outcome, wrote, error, retval,
               summary, msgBuilt, smtpAttempts, run>>
splitVars == <<spc, text, chunk_size, client, chunks>>
scriptVars == <<bpc, content_tokens, script_parts, calls, script,
                did_split, nchunks, did_merge, script_written, call_log>>
retryVars == <<rpc, rclient, max_retries, attempt, responses, waits, rresult, rerror>>
audioVars == <<apc, n_script_chunks, chunk_index, tts_attempt, chunk_files,
               audio_files, produced, synthesized, combine_result, podcast_wav,
               ffmpeg_result, pydub_result, final_path>>
flashVars == <<fpc, qa_pairs, keyword_qa, fcalls, yaml_content, yaml_writes>>
runVars == <<gpc, script_calls, narration_chunks, calls_made, gen_calls,
             gen_attempts, gerror>>
\* the variables of the stage-level scenarios
stageVars == <<scriptVars, retryVars, audioVars, flashVars, runVars>>
vars      == <<pc, doc, output_dir, results, dirs, files, send_mail,
               has_gmail_config, started, outcome, wrote, error, retval,
               summary, msgBuilt, smtpAttempts, run,
               spc, text, chunk_size, client, chunks,
               bpc, content_tokens, script_parts, calls, script,
               did_split, nchunks, did_merge, script_written, call_log,
               rpc, rclient, max_retries, attempt, responses, waits, rresult,
               rerror,
               apc, n_script_chunks, chunk_index, tts_attempt, chunk_files,
               audio_files, produced, synthesized, combine_result, podcast_wav,
               ffmpeg_result, pydub_result, final_path,
               fpc, qa_pairs, keyword_qa, fcalls, yaml_content, yaml_writes,
               gpc, script_calls, narration_chunks, calls_made, gen_calls,
               gen_attempts, gerror>>

\* build_script takes no part in the scenario.
ScriptIdle ==
    /\ bpc = "off"
    /\ content_tokens = 0
    /\ script_parts = <<>>
    /\ calls = 0
    /\ script = <<>>
    /\ did_split = FALSE
    /\ nchunks = 0
    /\ did_merge = FALSE
    /\ script_written = FALSE
    /\ call_log = <<>>

\* The call has returned nothing (yet), has raised nothing (yet).
NoResult == [attempt |-> -1]

NoError == [attempt |-> -1, cause |-> "none"]

\* No generation call takes part in the scenario.
RetryIdle ==
    /\ rpc = "off"
    /\ rclient = "none"
    /\ max_retries = 0
    /\ attempt = 0
    /\ responses = <<>>
    /\ waits = <<>>
    /\ rresult = NoResult
    /\ rerror = NoError

\* build_audio takes no part in the scenario.
AudioIdle ==
    /\ apc = "off"
    /\ n_script_chunks = 0
    /\ chunk_index = 0
    /\ tts_attempt = 0
    /\ chunk_files = <<>>
    /\ audio_files = <<>>
    /\ produced = <<>>
    /\ synthesized = {}
    /\ combine_result = "none"
    /\ podcast_wav = <<>>
    /\ ffmpeg_result = "none"
    /\ pydub_result = "none"
    /\ final_path = "none"

\* _generate_flashcard_yaml takes no part in the scenario.
FlashIdle ==
    /\ fpc = "off"
    /\ qa_pairs = <<>>
    /\ keyword_qa = <<>>
    /\ fcalls = 0
    /\ yaml_content = "none"
    /\ yaml_writes = <<>>

\* The call-level run takes no part in the scenario.
RunIdle ==
    /\ gpc = "off"
    /\ script_calls = 0
    /\ narration_chunks = 0
    /\ calls_made = 0
    /\ gen_calls = 0
    /\ gen_attempts = 0
    /\ gerror = "none"

\* No stage-level scenario takes part.
StageIdle == ScriptIdle /\ RetryIdle /\ AudioIdle /\ FlashIdle /\ RunIdle

(***************************************************************************)
(* Bounds                                                                  *)
(***************************************************************************)
\* directories outputs/<timestamp>, <timestamp>_1, ... that may pre-exist
MaxDirs == 2
\* audio segment files the synthesis calls of one run may leave behind
MaxAudioFiles == 2
\* length of the text given to split_by_tokens
MaxLen == 6
\* number of lines of the script given to split_script_for_tts
MaxLines == 3
\* largest chunk budget of the splitter scenario
MaxBudget == 3

(***************************************************************************)
(* Paths and the ledger                                                    *)
(***************************************************************************)
NoDir == -1

None == [dir |-> NoDir, name |-> "None", idx |-> 0]

Path(d, n) == [dir |-> d, name |-> n, idx |-> 0]

Kinds == {"script", "explanation", "questions", "flashcards", "audio"}

EmptyLedger == [k \in Kinds |-> None]

Steps == {"ingest", "script", "explainer", "questions", "audio", "email", "summary"}

\* Mutant of get_output_dir: the timestamp-named directory, taken or not.
get_output_dir_base(existing) == 0

\* Config.get_output_dir: the timestamp-named directory (0) if it is free,
\* otherwise the first of <name>_1, <name>_2, ... that does not exist.
get_output_dir(existing) ==
    CHOOSE d \in 0..(MaxDirs + 1) :
        /\ d \notin existing
        /\ \A e \in 0..(MaxDirs + 1) : e < d => e \in existing

(***************************************************************************)
(* Stage functions: the result of one call, given what the external        *)
(* services did.  raised: an exception left the function; ret: the value   *)
(* returned; files: the files on disk afterwards.                          *)
(***************************************************************************)
Result(r, v, fs) == [raised |-> r, ret |-> v, files |-> fs]

\* build_script: the generation call(s) succeed or the last retry raises;
\* on success script.md is written.
build_script(dir, fs, genOk) ==
    IF genOk
    THEN Result(FALSE, Path(dir, "script.md"), fs \cup {Path(dir, "script.md")})
    ELSE Result(TRUE, None, fs)

\* build_explainer: reads the script, one generation call, writes explanation.md.
build_explainer(script_path, dir, fs, genOk) ==
    IF script_path \in fs /\ genOk
    THEN Result(FALSE, Path(dir, "explanation.md"),
                fs \cup {Path(dir, "explanation.md")})
    ELSE Result(TRUE, None, fs)

\* Mutant of build_questions: a failed flashcard generation is swallowed and
\* the Q&A path is returned without a flashcard path.
build_questions_soft(script_path, dir, fs, qaOk, hasKeyword, flashOk) ==
    IF ~(script_path \in fs /\ qaOk)
    THEN [raised |-> TRUE, ret |-> <<None, None>>, files |-> fs, flash |-> "none"]
    ELSE LET fs1 == fs \cup {Path(dir, "questions.md")} IN
         IF ~hasKeyword
         THEN [raised |-> FALSE, ret |-> <<Path(dir, "questions.md"), None>>,
               files |-> fs1, flash |-> "skipped"]
         ELSE IF ~flashOk
              THEN [raised |-> FALSE, ret |-> <<Path(dir, "questions.md"), None>>,
                    files |-> fs1, flash |-> "failed"]
              ELSE [raised |-> FALSE,
                    ret |-> <<Path(dir, "questions.md"), Path(dir, "flashcards.yaml")>>,
                    files |-> fs1 \cup {Path(dir, "flashcards.yaml")},
                    flash |-> "ok"]

\* build_questions: reads the script, generates and writes questions.md,
\* extracts the keyword section and, only when it is not empty, generates
\* and writes flashcards.yaml.  Returns (qa_path, flashcard_path).
\* flash: what became of the flashcard generation ("none": not reached).
build_questions(script_path, dir, fs, qaOk, hasKeyword, flashOk) ==
    IF ~(script_path \in fs /\ qaOk)
    THEN [raised |-> TRUE, ret |-> <<None, None>>, files |-> fs, flash |-> "none"]
    ELSE LET fs1 == fs \cup {Path(dir, "questions.md")} IN
         IF ~hasKeyword
         THEN [raised |-> FALSE, ret |-> <<Path(dir, "questions.md"), None>>,
               files |-> fs1, flash |-> "skipped"]
         ELSE IF ~flashOk
              THEN [raised |-> TRUE, ret |-> <<None, None>>, files |-> fs1,
                    flash |-> "failed"]
              ELSE [raised |-> FALSE,
                    ret |-> <<Path(dir, "questions.md"), Path(dir, "flashcards.yaml")>>,
                    files |-> fs1 \cup {Path(dir, "flashcards.yaml")},
                    flash |-> "ok"]

\* TTSClient.generate_audio saves segment i as chunks/audio_chunk_<i>.
ChunkFile(dir, i) == [dir |-> dir, name |-> "chunks/audio_chunk", idx |-> i]

ChunkFiles(dir, n) == {ChunkFile(dir, i) : i \in 0..(n - 1)}

\* _combine_audio_files: one file is copied to podcast.wav; several are
\* joined by the audio library, whose failure is caught and yields None.
combine_audio_files(nAudio, dir, fs, combineOk) ==
    IF nAudio = 0
    THEN Result(FALSE, None, fs)
    ELSE IF nAudio = 1 \/ combineOk
         THEN Result(FALSE, Path(dir, "podcast.wav"), fs \cup {Path(dir, "podcast.wav")})
         ELSE Result(FALSE, None, fs)

\* _convert_to_mp3: the codec tool first, then the library transcoder.
convert_to_mp3(dir, fs, ffmpegOk, pydubOk) ==
    IF ffmpegOk \/ pydubOk
    THEN Result(FALSE, Path(dir, "podcast.mp3"), fs \cup {Path(dir, "podcast.mp3")})
    ELSE Result(FALSE, None, fs)

\* Mutant of cleanup_temp_files: the run's whole output directory is removed.
cleanup_temp_files_outdir(dir, fs, cleanupOk) ==
    IF cleanupOk
    THEN {f \in fs : f.dir # dir}
    ELSE fs

\* _cleanup_temp_files: removes the chunks directory; a failure is only logged.
cleanup_temp_files(dir, fs, cleanupOk) ==
    IF cleanupOk
    THEN {f \in fs : ~(f.dir = dir /\ f.name = "chunks/audio_chunk")}
    ELSE fs

\* build_audio: reads the script, synthesizes chunk by chunk (nAudio segment
\* files result), combines, transcodes, cleans up.  Returns the mp3 if one
\* was produced, else the wav; None when nothing was synthesized or combined.
build_audio(script_path, dir, fs, setupOk, nAudio, combineOk, ffmpegOk, pydubOk, cleanupOk) ==
    IF ~(script_path \in fs /\ setupOk)
    THEN Result(TRUE, None, fs)
    ELSE LET fs1 == fs \cup ChunkFiles(dir, nAudio) IN
         IF nAudio = 0
         THEN Result(FALSE, None, fs1)
         ELSE LET comb == combine_audio_files(nAudio, dir, fs1, combineOk) IN
              IF comb.ret = None
              THEN Result(FALSE, None, comb.files)
              ELSE LET conv == convert_to_mp3(dir, comb.files, ffmpegOk, pydubOk)
                       fs3  == cleanup_temp_files(dir, conv.files, cleanupOk)
                   IN  Result(FALSE,
                              IF conv.ret # None THEN conv.ret ELSE comb.ret,
                              fs3)

\* Mutant of send_email: the credentials check is missing.
send_email_nocheck(hasConfig, buildOk, smtpOk) ==
    IF ~buildOk
    THEN [ret |-> FALSE, built |-> 0, attempts |-> 0, end |-> "failed"]
    ELSE IF ~smtpOk
         THEN [ret |-> FALSE, built |-> 1, attempts |-> 1, end |-> "failed"]
         ELSE [ret |-> TRUE, built |-> 1, attempts |-> 1, end |-> "ok"]

\* send_email: skipped without credentials; otherwise the message is built
\* and one SMTP delivery is attempted; every exception is caught.
\* built / attempts: messages built and deliveries attempted by this call.
send_email(hasConfig, buildOk, smtpOk) ==
    IF ~hasConfig
    THEN [ret |-> FALSE, built |-> 0, attempts |-> 0, end |-> "skipped"]
    ELSE IF ~buildOk
         THEN [ret |-> FALSE, built |-> 0, attempts |-> 0, end |-> "failed"]
         ELSE IF ~smtpOk
              THEN [ret |-> FALSE, built |-> 1, attempts |-> 1, end |-> "failed"]
              ELSE [ret |-> TRUE, built |-> 1, attempts |-> 1, end |-> "ok"]

(***************************************************************************)
(* PipelineOrchestrator                                                    *)
(***************************************************************************)
\* PipelineOrchestrator.__init__, before run_full_pipeline is called.
OrchInit ==
    /\ pc = "idle"
    /\ doc = "None"
    /\ output_dir = NoDir
    /\ results = EmptyLedger
    /\ dirs \in SUBSET (0..(MaxDirs - 1))
    /\ files = {}
    /\ send_mail \in BOOLEAN
    /\ has_gmail_config \in BOOLEAN
    /\ started = <<>>
    /\ outcome = [s \in Steps \cup {"flashcards"} |-> "none"]
    /\ wrote = [k \in Kinds |-> <<>>]
    /\ error = "none"
    /\ retval = NoDir
    /\ summary = [k \in Kinds |-> "none"]
    /\ msgBuilt = 0
    /\ smtpAttempts = 0
    /\ run = "none"

\* Mutant of Raise: the step swallows its exception and the run goes on.
Raise_continue(step) ==
    /\ pc' = (CASE step = "ingest" -> "script"
               [] step = "script" -> "explainer"
               [] OTHER -> "questions")
    /\ error' = error
    /\ outcome' = [outcome EXCEPT ![step] = "failed"]

\* The hard-gating failure path: the exception leaves the step, the except
\* clause of run_full_pipeline logs it and re-raises.
Raise(step) ==
    /\ pc' = "aborted"
    /\ error' = step
    /\ outcome' = [outcome EXCEPT ![step] = "failed"]

\* run_full_pipeline up to the try block: the output directory is prepared.
\* The assignments of the build_*_step methods to self.results.
store_script(ret) == [results EXCEPT !["script"] = ret]

\* Mutant of store_explanation: the assignment is forgotten.
store_explanation_missing(ret) == results

store_explanation(ret) == [results EXCEPT !["explanation"] = ret]

\* Mutant of store_questions: the Q&A path is stored under the wrong key.
store_questions_wrongkey(ret) ==
    [results EXCEPT !["script"] = ret[1], !["flashcards"] = ret[2]]

store_questions(ret) ==
    [results EXCEPT !["questions"] = ret[1], !["flashcards"] = ret[2]]

store_audio(ret) == [results EXCEPT !["audio"] = ret]

run_full_pipeline ==
    /\ pc = "idle"
    /\ output_dir' = get_output_dir(dirs)
    /\ dirs' = dirs \cup {get_output_dir(dirs)}
    /\ pc' = "ingest"
    /\ run' = "first"
    /\ UNCHANGED <<doc, results, files, send_mail, has_gmail_config, started,
                   outcome, wrote, error, retval, summary, msgBuilt, smtpAttempts>>
    /\ UNCHANGED <<splitVars, stageVars>>

\* ingest_step: ingest_markdown, then the copy of the input file.
ingest_step ==
    /\ pc = "ingest"
    /\ started' = Append(started, "ingest")
    /\ \E ok \in BOOLEAN :
         IF ok
         THEN /\ doc' = "doc"
              /\ files' = files \cup {Path(output_dir, "input")}
              /\ pc' = "script"
              /\ outcome' = [outcome EXCEPT !["ingest"] = "ok"]
              /\ UNCHANGED error
         ELSE /\ Raise("ingest")
              /\ UNCHANGED <<doc, files>>
    /\ UNCHANGED <<output_dir, results, dirs, send_mail, has_gmail_config,
                   wrote, retval, summary, msgBuilt, smtpAttempts>>
    /\ UNCHANGED <<run, splitVars, stageVars>>

build_script_step ==
    /\ pc = "script"
    /\ started' = Append(started, "script")
    /\ \E genOk \in BOOLEAN :
         LET r == build_script(output_dir, files, genOk) IN
         /\ files' = r.files
         /\ IF r.raised
            THEN /\ Raise("script")
                 /\ UNCHANGED <<results, wrote>>
            ELSE /\ results' = store_script(r.ret)
                 /\ wrote' = [wrote EXCEPT !["script"] = Append(@, "script")]
                 /\ pc' = "explainer"
                 /\ outcome' = [outcome EXCEPT !["script"] = "ok"]
                 /\ UNCHANGED error
    /\ UNCHANGED <<doc, output_dir, dirs, send_mail, has_gmail_config,
                   retval, summary, msgBuilt, smtpAttempts>>
    /\ UNCHANGED <<run, splitVars, stageVars>>

build_explainer_step ==
    /\ pc = "explainer"
    /\ started' = Append(started, "explainer")
    /\ \E genOk \in BOOLEAN :
         LET r == build_explainer(results["script"], output_dir, files, genOk) IN
         /\ files' = r.files
         /\ IF r.raised
            THEN /\ Raise("explainer")
                 /\ UNCHANGED <<results, wrote>>
            ELSE /\ results' = store_explanation(r.ret)
                 /\ wrote' = [wrote EXCEPT !["explanation"] = Append(@, "explainer")]
                 /\ pc' = "questions"
                 /\ outcome' = [outcome EXCEPT !["explainer"] = "ok"]
                 /\ UNCHANGED error
    /\ UNCHANGED <<doc, output_dir, dirs, send_mail, has_gmail_config,
                   retval, summary, msgBuilt, smtpAttempts>>
    /\ UNCHANGED <<run, splitVars, stageVars>>

build_questions_step ==
    /\ pc = "questions"
    /\ started' = Append(started, "questions")
    /\ \E qaOk \in BOOLEAN, hasKeyword \in BOOLEAN, flashOk \in BOOLEAN :
         LET r == build_questions(results["script"], output_dir, files,
                                  qaOk, hasKeyword, flashOk) IN
         /\ files' = r.files
         /\ IF r.raised
            THEN /\ pc' = "aborted"
                 /\ error' = "questions"
                 /\ outcome' = [outcome EXCEPT !["questions"] = "failed",
                                               !["flashcards"] = r.flash]
                 /\ UNCHANGED <<results, wrote>>
            ELSE /\ results' = store_questions(r.ret)
                 /\ wrote' = [wrote EXCEPT !["questions"] = Append(@, "questions"),
                                           !["flashcards"] = Append(@, "questions")]
                 /\ pc' = "audio"
                 /\ outcome' = [outcome EXCEPT !["questions"] = "ok",
                                               !["flashcards"] = r.flash]
                 /\ UNCHANGED error
    /\ UNCHANGED <<doc, output_dir, dirs, send_mail, has_gmail_config,
                   retval, summary, msgBuilt, smtpAttempts>>
    /\ UNCHANGED <<run, splitVars, stageVars>>

\* Mutant of audio_caught: the exception of build_audio is re-raised.
audio_reraised ==
    /\ pc' = "aborted"
    /\ error' = "audio"
    /\ outcome' = [outcome EXCEPT !["audio"] = "failed"]
    /\ UNCHANGED <<results, wrote>>

\* The except clause of build_audio_step: logged, None returned.
audio_caught ==
    /\ pc' = "email"
    /\ outcome' = [outcome EXCEPT !["audio"] = "failed"]
    /\ UNCHANGED <<results, wrote, error>>

\* build_audio_step: an exception of build_audio is caught and logged; a
\* returned value, None included, is stored in the ledger.
build_audio_step ==
    /\ pc = "audio"
    /\ started' = Append(started, "audio")
    /\ \E setupOk \in BOOLEAN, nAudio \in 0..MaxAudioFiles, combineOk \in BOOLEAN,
          ffmpegOk \in BOOLEAN, pydubOk \in BOOLEAN, cleanupOk \in BOOLEAN :
         LET r == build_audio(results["script"], output_dir, files, setupOk,
                              nAudio, combineOk, ffmpegOk, pydubOk, cleanupOk) IN
         /\ files' = r.files
         /\ IF r.raised
            THEN audio_caught
            ELSE /\ results' = store_audio(r.ret)
                 /\ wrote' = [wrote EXCEPT !["audio"] = Append(@, "audio")]
                 /\ outcome' = [outcome EXCEPT !["audio"] =
                                   IF r.ret = None THEN "failed" ELSE "ok"]
                 /\ pc' = "email"
                 /\ UNCHANGED error
    /\ UNCHANGED <<doc, output_dir, dirs, send_mail, has_gmail_config,
                   retval, summary, msgBuilt, smtpAttempts>>
    /\ UNCHANGED <<run, splitVars, stageVars>>

\* "if send_mail: self.send_email_step()"
send_email_step ==
    /\ pc = "email"
    /\ IF send_mail
       THEN /\ started' = Append(started, "email")
            /\ \E buildOk \in BOOLEAN, smtpOk \in BOOLEAN :
                 LET r == send_email(has_gmail_config, buildOk, smtpOk) IN
                 /\ msgBuilt' = msgBuilt + r.built
                 /\ smtpAttempts' = smtpAttempts + r.attempts
                 /\ outcome' = [outcome EXCEPT !["email"] = r.end]
       ELSE /\ outcome' = [outcome EXCEPT !["email"] = "skipped"]
            /\ UNCHANGED <<started, msgBuilt, smtpAttempts>>
    /\ pc' = "summary"
    /\ UNCHANGED <<doc, output_dir, results, dirs, files, send_mail,
                   has_gmail_config, wrote, error, retval, summary>>
    /\ UNCHANGED <<run, splitVars, stageVars>>

\* Mutant of summary_line: the test is inverted.
summary_line_inverted(file_path, fs) ==
    IF file_path # None /\ file_path \in fs THEN "not_produced" ELSE "produced"

\* _print_summary's line for one ledger entry.
summary_line(file_path, fs) ==
    IF file_path # None /\ file_path \in fs THEN "produced" ELSE "not_produced"

\* _print_summary, then "return self.output_dir".
print_summary ==
    /\ pc = "summary"
    /\ started' = Append(started, "summary")
    /\ summary' = [k \in Kinds |-> summary_line(results[k], files)]
    /\ outcome' = [outcome EXCEPT !["summary"] = "ok"]
    /\ retval' = output_dir
    /\ pc' = "done"
    /\ UNCHANGED <<doc, output_dir, results, dirs, files, send_mail,
                   has_gmail_config, wrote, error, msgBuilt, smtpAttempts>>
    /\ UNCHANGED <<run, splitVars, stageVars>>

OrchNext ==
    \/ run_full_pipeline
    \/ ingest_step
    \/ build_script_step
    \/ build_explainer_step
    \/ build_questions_step
    \/ build_audio_step
    \/ send_email_step
    \/ print_summary

SplitIdle ==
    /\ spc = "off"
    /\ text = <<>>
    /\ chunk_size = 1
    /\ client = "none"
    /\ chunks = <<>>

Init == OrchInit /\ SplitIdle /\ StageIdle

Next ==
    \/ run_full_pipeline
    \/ ingest_step
    \/ build_script_step
    \/ build_explainer_step
    \/ build_questions_step
    \/ build_audio_step
    \/ send_email_step
    \/ print_summary

Spec == Init /\ [][Next]_vars

(***************************************************************************)
(* ReuseSpec: run_full_pipeline called a second time on the same           *)
(* PipelineOrchestrator, after the first call returned or raised.          *)
(***************************************************************************)
\* The second call of run_full_pipeline up to the try block.  The object
\* keeps self.doc and self.results as the first call left them: they are
\* assigned in __init__ and by the steps only.  The disk keeps its files.
\* The history variables describe the call in progress and start afresh.
run_full_pipeline_again ==
    /\ pc \in {"done", "aborted"}
    /\ run = "first"
    /\ output_dir' = get_output_dir(dirs)
    /\ dirs' = dirs \cup {get_output_dir(dirs)}
    /\ pc' = "ingest"
    /\ run' = "second"
    /\ started' = <<>>
    /\ outcome' = [s \in Steps \cup {"flashcards"} |-> "none"]
    /\ wrote' = [k \in Kinds |-> <<>>]
    /\ error' = "none"
    /\ retval' = NoDir
    /\ summary' = [k \in Kinds |-> "none"]
    /\ msgBuilt' = 0
    /\ smtpAttempts' = 0
    /\ UNCHANGED <<doc, results, files, send_mail, has_gmail_config>>
    /\ UNCHANGED <<splitVars, stageVars>>

ReuseNext ==
    \/ run_full_pipeline
    \/ run_full_pipeline_again
    \/ ingest_step
    \/ build_script_step
    \/ build_explainer_step
    \/ build_questions_step
    \/ build_audio_step
    \/ send_email_step
    \/ print_summary

ReuseSpec == Init /\ [][ReuseNext]_vars

(***************************************************************************)
(* TextSplitter (generator/splitter.py)                                    *)
(*                                                                         *)
(* A text is a sequence of characters; four kinds of character suffice:    *)
(*   "a"  a character that is neither whitespace nor terminal punctuation  *)
(*   "K"  the full stop U+3002, which _split_by_sentences also appends     *)
(*   "X"  an exclamation or question mark, U+FF01 or U+FF1F                *)
(*   "N"  a newline                                                        *)
(***************************************************************************)
Chars == {"a", "K", "X", "N"}

Texts == UNION {[1..n -> Chars] : n \in 0..MaxLen}

IsSpace(c) == c \in {"N", " "}

IsTerminator(c) == c \in {"K", "X"}

MinOf(S) == CHOOSE x \in S : \A y \in S : x <= y

MaxOf(S) == CHOOSE x \in S : \A y \in S : x >= y

\* str.strip()
Strip(t) ==
    LET keep == {i \in 1..Len(t) : ~IsSpace(t[i])} IN
    IF keep = {} THEN <<>> ELSE SubSeq(t, MinOf(keep), MaxOf(keep))

\* _estimate_tokens: int(len(text) * 0.7)
estimate_tokens(t) == (Len(t) * 7) \div 10

\* The token count the generation service reports: one token per character.
api_total_tokens(t) == Len(t)

\* LLMClient.count_tokens: the service's count, or the estimate when the
\* count request fails.
count_tokens(cl, t) ==
    IF cl = "api" THEN api_total_tokens(t) ELSE (Len(t) * 7) \div 10

\* LLMClient.is_token_limit_exceeded
is_token_limit_exceeded(cl, t, limit) == count_tokens(cl, t) > limit

\* The budget test of the two loops: the client's when there is one, the
\* estimate otherwise.
Exceeds(cl, t, size) ==
    IF cl # "none"
    THEN is_token_limit_exceeded(cl, t, size)
    ELSE estimate_tokens(t) > size

\* re.split(r'\n\s*\n', text): the pieces between the matches, leftmost
\* match first, \s* greedy.
RECURSIVE re_split_blank_lines(_)
re_split_blank_lines(t) ==
    LET Ends(i) == {j \in (i + 1)..Len(t) :
                      t[j] = "N" /\ \A m \in (i + 1)..(j - 1) : IsSpace(t[m])}
        starts == {i \in 1..Len(t) : t[i] = "N" /\ Ends(i) # {}}
    IN  IF starts = {}
        THEN <<t>>
        ELSE LET i == MinOf(starts)
                 j == MaxOf(Ends(i))
             IN  <<SubSeq(t, 1, i - 1)>> \o re_split_blank_lines(SubSeq(t, j + 1, Len(t)))

StripAll(ps) == [i \in 1..Len(ps) |-> Strip(ps[i])]

NonEmpty(t) == t # <<>>

\* _split_by_paragraphs
split_by_paragraphs(t) == SelectSeq(StripAll(re_split_blank_lines(t)), NonEmpty)

\* re.split(r'[。！？]', text)
RECURSIVE re_split_terminators(_)
re_split_terminators(t) ==
    LET terms == {i \in 1..Len(t) : IsTerminator(t[i])} IN
    IF terms = {}
    THEN <<t>>
    ELSE LET i == MinOf(terms) IN
         <<SubSeq(t, 1, i - 1)>> \o re_split_terminators(SubSeq(t, i + 1, Len(t)))

\* "sentences = [s.strip() + '。' for s in sentences if s.strip()]"
sentences_of(t) ==
    LET kept == SelectSeq(StripAll(re_split_terminators(t)), NonEmpty) IN
    [i \in 1..Len(kept) |-> kept[i] \o <<"K">>]

\* The loop of _split_by_sentences from sentence i on, with the chunks closed
\* so far and the running chunk; the final append included.
RECURSIVE sentence_loop(_, _, _, _, _, _)
sentence_loop(ss, i, done, current, cl, size) ==
    IF i > Len(ss)
    THEN IF current # <<>> THEN Append(done, Strip(current)) ELSE done
    ELSE LET sentence == ss[i]
             test_chunk == IF current # <<>> THEN current \o sentence ELSE sentence
         IN  IF Exceeds(cl, test_chunk, size)
             THEN IF current # <<>>
                  THEN sentence_loop(ss, i + 1, Append(done, Strip(current)),
                                     sentence, cl, size)
                  ELSE sentence_loop(ss, i + 1, Append(done, sentence),
                                     current, cl, size)
             ELSE sentence_loop(ss, i + 1, done, test_chunk, cl, size)

\* _split_by_sentences
split_by_sentences(t, cl, size) ==
    IF sentences_of(t) = <<>>
    THEN <<t>>
    ELSE sentence_loop(sentences_of(t), 1, <<>>, <<>>, cl, size)

\* The loop of split_by_tokens from paragraph i on; the final append included.
RECURSIVE paragraph_loop(_, _, _, _, _, _)
paragraph_loop(ps, i, done, current, cl, size) ==
    IF i > Len(ps)
    THEN IF current # <<>> THEN Append(done, Strip(current)) ELSE done
    ELSE LET paragraph == ps[i]
             test_chunk == IF current # <<>>
                           THEN current \o <<"N", "N">> \o paragraph
                           ELSE paragraph
         IN  IF Exceeds(cl, test_chunk, size)
             THEN IF current # <<>>
                  THEN paragraph_loop(ps, i + 1, Append(done, Strip(current)),
                                      paragraph, cl, size)
                  ELSE paragraph_loop(ps, i + 1,
                                      done \o split_by_sentences(paragraph, cl, size),
                                      current, cl, size)
             ELSE paragraph_loop(ps, i + 1, done, test_chunk, cl, size)

\* Mutant of split_by_tokens: no accumulation, every paragraph is a chunk.
split_by_tokens_no_accumulation(t, cl, size) ==
    IF cl # "none" /\ ~is_token_limit_exceeded(cl, t, size)
    THEN <<t>>
    ELSE split_by_paragraphs(t)

\* TextSplitter.split_by_tokens
split_by_tokens(t, cl, size) ==
    IF cl # "none" /\ ~is_token_limit_exceeded(cl, t, size)
    THEN <<t>>
    ELSE paragraph_loop(split_by_paragraphs(t), 1, <<>>, <<>>, cl, size)

\* The orchestrator takes no part in the splitter scenarios.
OrchIdle ==
    /\ pc = "off"
    /\ doc = "None"
    /\ output_dir = NoDir
    /\ results = EmptyLedger
    /\ dirs = {}
    /\ files = {}
    /\ send_mail = FALSE
    /\ has_gmail_config = FALSE
    /\ started = <<>>
    /\ outcome = [s \in Steps \cup {"flashcards"} |-> "none"]
    /\ wrote = [k \in Kinds |-> <<>>]
    /\ error = "none"
    /\ retval = NoDir
    /\ summary = [k \in Kinds |-> "none"]
    /\ msgBuilt = 0
    /\ smtpAttempts = 0
    /\ run = "none"

\* What the build_script scenarios leave alone, and its idle state.
notScript == <<orchVars, splitVars, retryVars, audioVars, flashVars, runVars>>

NotScriptIdle == OrchIdle /\ SplitIdle /\ RetryIdle /\ AudioIdle /\ FlashIdle /\ RunIdle

\* What the generation-call scenario leaves alone, and its idle state.
notRetry == <<orchVars, splitVars, scriptVars, audioVars, flashVars, runVars>>

NotRetryIdle == OrchIdle /\ SplitIdle /\ ScriptIdle /\ AudioIdle /\ FlashIdle /\ RunIdle

\* What the build_audio scenario leaves alone, and its idle state.
notAudio == <<orchVars, splitVars, scriptVars, retryVars, flashVars, runVars>>

NotAudioIdle == OrchIdle /\ SplitIdle /\ ScriptIdle /\ RetryIdle /\ FlashIdle /\ RunIdle

\* What the flashcard scenario leaves alone, and its idle state.
notFlash == <<orchVars, splitVars, scriptVars, retryVars, audioVars, runVars>>

NotFlashIdle == OrchIdle /\ SplitIdle /\ ScriptIdle /\ RetryIdle /\ AudioIdle /\ RunIdle

\* TextSplitter(chunk_size) and the arguments of one split_by_tokens call.
SplitInit ==
    /\ OrchIdle
    /\ StageIdle
    /\ spc = "ready"
    /\ text \in Texts
    /\ chunk_size \in 1..MaxBudget
    /\ client \in {"none", "api", "apifail"}
    /\ chunks = <<>>

\* The call split_by_tokens(text, llm_client).
call_split_by_tokens ==
    /\ spc = "ready"
    /\ chunks' = split_by_tokens(text, client, chunk_size)
    /\ spc' = "done"
    /\ UNCHANGED <<text, chunk_size, client>>
    /\ UNCHANGED <<orchVars, stageVars>>

SplitNext == call_split_by_tokens

SplitSpec == SplitInit /\ [][SplitNext]_vars

(***************************************************************************)
(* Claims about the orchestrator (checked under Spec)                      *)
(***************************************************************************)
Canon == <<"ingest", "script", "explainer", "questions", "audio", "email", "summary">>

CanonNoMail == <<"ingest", "script", "explainer", "questions", "audio", "summary">>

HardStages == {"ingest", "script", "explainer", "questions"}

IsPrefix(s, t) == Len(s) <= Len(t) /\ \A i \in 1..Len(s) : s[i] = t[i]

Pos(step) == CHOOSE i \in 1..Len(Canon) : Canon[i] = step

\* The step that owns a ledger entry.
Owner(k) ==
    CASE k = "script" -> "script"
      [] k = "explanation" -> "explainer"
      [] k = "questions" -> "questions"
      [] k = "flashcards" -> "questions"
      [] k = "audio" -> "audio"



C1_order ==
    /\ IsPrefix(started, Canon) \/ IsPrefix(started, CanonNoMail)
    /\ \A i \in 1..Len(started) : \A h \in HardStages :
         Pos(h) < Pos(started[i]) => outcome[h] = "ok"
    /\ \A h \in HardStages :
         outcome[h] = "failed" =>
           /\ pc = "aborted"
           /\ error = h
           /\ started[Len(started)] = h
           /\ retval = NoDir
           /\ \A k \in Kinds : summary[k] = "none"

C1_ledger_kept ==
    (\E h \in HardStages : outcome[h] # "failed" /\ outcome'[h] = "failed")
        => results' = results

\* C1: the steps are started only in the order ingest, script, explainer,
\* questions, audio, email, summary, each only after every earlier hard-gating
\* stage succeeded; when a hard-gating stage fails the error propagates, no
\* later step (audio, email and summary included) is started, and the failing
\* step leaves the ledger as the earlier stages set it.
C1_HardGating == [](C1_order) /\ [][C1_ledger_kept]_vars

\* C1's case: the explainer failed after the script stage had set its entry.
C1_Witness ==
    /\ pc = "aborted"
    /\ error = "explainer"
    /\ results["script"] # None
    /\ started = <<"ingest", "script", "explainer">>

C2_state ==
    outcome["audio"] = "failed" =>
        /\ results["audio"] = None
        /\ error = "none"
        /\ \/ pc \in {"email", "summary"} /\ ENABLED OrchNext
           \/ /\ pc = "done"
              /\ retval = output_dir
              /\ started[Len(started)] = "summary"

C2_step ==
    (pc = "audio" /\ outcome'["audio"] = "failed")
        => /\ pc' = "email"
           /\ results' = results

\* C2: a failure of the audio stage (build_audio raising, or producing no
\* audio) never aborts the run: the audio entry stays unset, the other
\* entries are unchanged, and the run goes on to the email step and the
\* summary and returns the output directory.
C2_AudioSoft == [](C2_state) /\ [][C2_step]_vars

\* C2's case: the audio stage failed and the run returned.
C2_Witness ==
    /\ outcome["audio"] = "failed"
    /\ pc = "done"
    /\ results["script"] # None
    /\ results["audio"] = None

C3_state ==
    \A k \in Kinds :
        /\ Len(wrote[k]) <= 1
        /\ \A i \in 1..Len(wrote[k]) : wrote[k][i] = Owner(k)
        /\ results[k] # None => Len(wrote[k]) = 1

C3_step ==
    \A k \in Kinds :
        results'[k] # results[k] =>
            /\ results[k] = None
            /\ pc = Owner(k)
            /\ wrote[k] = <<>>

\* C3: within a run every ledger entry is assigned at most once, only by its
\* own stage, and an entry that holds a path is never overwritten or reset.
C3_LedgerWriteOnce == [](C3_state) /\ [][C3_step]_vars

\* C3's case: every stage has written its entry.
C3_Witness ==
    /\ pc = "done"
    /\ \A k \in Kinds : results[k] # None /\ wrote[k] = <<Owner(k)>>

\* C4 as stated: at the end of a run an entry is unset only if its own stage
\* failed.
C4_UnsetOnlyIfOwnStageFailed ==
    pc \in {"done", "aborted"} =>
        \A k \in Kinds : results[k] = None => outcome[Owner(k)] = "failed"

\* C4, amended: at the end of a run an entry is unset only if its own stage
\* failed, or its stage was never started because an earlier hard-gating stage
\* aborted the run, or it is the flashcards entry and the questions stage
\* succeeded without finding a keyword section; every other entry of a stage
\* that succeeded is set, so a failed audio stage leaves only the audio entry
\* unset.
C4_UnsetOnlyIfFailedOrNotRun ==
    pc \in {"done", "aborted"} =>
        /\ \A k \in Kinds :
             results[k] = None =>
                \/ outcome[Owner(k)] = "failed"
                \/ /\ outcome[Owner(k)] = "none"
                   /\ pc = "aborted"
                   /\ \E h \in HardStages :
                        Pos(h) < Pos(Owner(k)) /\ outcome[h] = "failed"
                \/ /\ k = "flashcards"
                   /\ outcome["questions"] = "ok"
                   /\ outcome["flashcards"] = "skipped"
        /\ \A k \in Kinds :
             (outcome[Owner(k)] = "ok" /\ results[k] = None) =>
                (k = "flashcards" /\ outcome["flashcards"] = "skipped")

\* C4's case: the run completed with a failed audio stage and every other
\* entry set.
C4_Witness ==
    /\ pc = "done"
    /\ outcome["audio"] = "failed"
    /\ \A k \in Kinds \ {"audio"} : results[k] # None

\* C5: after a full run every ledger entry is unset or the path of a file
\* that exists in the run's output directory; the audio entry, when set,
\* names podcast.mp3 or podcast.wav.
C5_LedgerFilesExist ==
    pc = "done" =>
        /\ \A k \in Kinds :
             results[k] # None =>
                /\ results[k] \in files
                /\ results[k].dir = output_dir
        /\ results["audio"] # None =>
             results["audio"].name \in {"podcast.mp3", "podcast.wav"}

\* C5's case: a full run whose audio entry is the untranscoded container,
\* with the intermediate chunk files removed.
C5_Witness ==
    /\ pc = "done"
    /\ results["audio"] = Path(output_dir, "podcast.wav")
    /\ ~(\E f \in files : f.name = "chunks/audio_chunk")
    /\ results["flashcards"] # None

Count(seq, x) == Cardinality({i \in 1..Len(seq) : seq[i] = x})

\* C6: once the four hard-gating stages have succeeded the run cannot abort:
\* the summary runs exactly once, after the audio and email steps, whatever
\* their outcome, the run returns the output directory, and the summary
\* reports every unset entry as not produced.
C6_SummaryAlways ==
    (\A h \in HardStages : outcome[h] = "ok") =>
        /\ error = "none"
        /\ Count(started, "summary") <= 1
        /\ \/ pc \in {"audio", "email", "summary"} /\ ENABLED OrchNext
           \/ /\ pc = "done"
              /\ retval = output_dir
              /\ Count(started, "summary") = 1
              /\ started[Len(started)] = "summary"
              /\ Count(started, "audio") = 1
              /\ outcome["audio"] \in {"ok", "failed"}
              /\ outcome["email"] \in {"ok", "failed", "skipped"}
              /\ \A k \in Kinds :
                   /\ summary[k] \in {"produced", "not_produced"}
                   /\ results[k] = None => summary[k] = "not_produced"

\* C6's case: the summary ran after a failed audio stage and a failed delivery.
C6_Witness ==
    /\ pc = "done"
    /\ outcome["audio"] = "failed"
    /\ outcome["email"] = "failed"
    /\ summary["audio"] = "not_produced"
    /\ summary["script"] = "produced"

C7_state ==
    /\ (~send_mail \/ ~has_gmail_config) =>
          /\ msgBuilt = 0
          /\ smtpAttempts = 0
          /\ outcome["email"] \in {"none", "skipped"}
    /\ error # "email"
    /\ outcome["email"] # "none" =>
          \/ pc = "summary" /\ ENABLED OrchNext
          \/ pc = "done" /\ retval = output_dir

C7_step == pc = "email" => (results' = results /\ pc' = "summary")

\* C7: without complete credentials, or when the caller opted out, no message
\* is built, no delivery is attempted and nothing is raised; a delivery that
\* is attempted and fails is caught, leaves the ledger unchanged, and the run
\* completes and returns the output directory.
C7_EmailSoft == [](C7_state) /\ [][C7_step]_vars

\* C7's case: a delivery was attempted, failed, and the run returned.
C7_Witness ==
    /\ pc = "done"
    /\ smtpAttempts = 1
    /\ outcome["email"] = "failed"
    /\ retval = output_dir

\* C7's other case: the email step was reached without credentials.
C7_SkipWitness ==
    /\ pc = "done"
    /\ send_mail
    /\ ~has_gmail_config
    /\ outcome["email"] = "skipped"

(***************************************************************************)
(* Claims about split_by_tokens (checked under SplitSpec)                  *)
(***************************************************************************)
\* The cost oracle used for a split.
Cost(cl, t) == IF cl = "none" THEN estimate_tokens(t) ELSE count_tokens(cl, t)

\* The sentences of a paragraph as they stand in the input, each with its own
\* terminal punctuation, if it has one.
RECURSIVE input_sentences(_)
input_sentences(p) ==
    LET terms == {i \in 1..Len(p) : IsTerminator(p[i])} IN
    IF terms = {}
    THEN IF Strip(p) = <<>> THEN {} ELSE {Strip(p)}
    ELSE LET i == MinOf(terms) IN
         {Strip(SubSeq(p, 1, i))} \cup input_sentences(SubSeq(p, i + 1, Len(p)))

InputParagraphs(t) ==
    {split_by_paragraphs(t)[i] : i \in 1..Len(split_by_paragraphs(t))}

InputSentences(t) == UNION {input_sentences(p) : p \in InputParagraphs(t)}

\* A sentence without its terminal punctuation.
Core(s) ==
    IF s # <<>> /\ IsTerminator(s[Len(s)]) THEN Strip(SubSeq(s, 1, Len(s) - 1)) ELSE s

\* c is the input sentence s, whatever mark terminates it.
SameSentence(c, s) == c = s \/ (Core(s) # <<>> /\ c = Core(s) \o <<"K">>)

\* C8: every chunk split_by_tokens returns is within the budget under the
\* oracle used for the split, or is a single paragraph or a single sentence of
\* the input whose own cost exceeds the budget.
C8_ChunkBudget ==
    spc = "done" =>
        \A i \in 1..Len(chunks) :
            \/ Cost(client, chunks[i]) <= chunk_size
            \/ /\ chunks[i] \in InputParagraphs(text)
               /\ Cost(client, chunks[i]) > chunk_size
            \/ \E s \in InputSentences(text) :
                 /\ SameSentence(chunks[i], s)
                 /\ Cost(client, s) > chunk_size

RECURSIVE Concat(_)
Concat(cs) == IF cs = <<>> THEN <<>> ELSE Head(cs) \o Concat(Tail(cs))

\* A text without its line breaks: the separators between paragraphs (and the
\* whitespace the splitter trims) are ignored.
Content(t) == SelectSeq(t, LAMBDA c : ~IsSpace(c))

\* C9: the chunks of split_by_tokens, concatenated in order, reconstruct the
\* content of the text: no character of a paragraph or sentence, terminal
\* punctuation included, is dropped, replaced or added.
C9_Reassembly ==
    spc = "done" => Content(Concat(chunks)) = Content(text)

\* C10: whenever the cost of the whole text is within the budget,
\* split_by_tokens returns exactly one chunk equal to the text, with a cost
\* client and with the fallback estimator alike.
C10_NoSplitWithinBudget ==
    (spc = "done" /\ Cost(client, text) <= chunk_size) => chunks = <<text>>

(***************************************************************************)
(* TextSplitter.split_script_for_tts                                       *)
(*                                                                         *)
(* A script is its lines joined by newlines.  The lines are drawn from     *)
(* ScriptLines: blank and whitespace-only lines, speaker lines of both     *)
(* label forms, with and without surrounding whitespace, and lines the     *)
(* speaker pattern does not match.                                         *)
(***************************************************************************)
ScriptLines ==
    { <<>>,
      <<" ">>,
      <<"S", "1", ":", "a">>,
      <<" ", "S", "1", ":", " ", "a", "a", " ">>,
      <<"S", "p", "e", "a", "k", "e", "r", " ", "1", "1", ":", "a">>,
      <<"S", "1", ":">>,
      <<"a", "a">>,
      <<"a", "S", "1", ":", "a">> }

\* '\n'.join(lines)
RECURSIVE JoinLines(_)
JoinLines(ls) ==
    IF ls = <<>> THEN <<>>
    ELSE IF Len(ls) = 1 THEN ls[1]
    ELSE ls[1] \o <<"N">> \o JoinLines(Tail(ls))

Scripts ==
    {JoinLines(ls) : ls \in UNION {[1..n -> ScriptLines] : n \in 1..MaxLines}}

\* str.split('\n')
RECURSIVE split_lines(_)
split_lines(t) ==
    LET nls == {i \in 1..Len(t) : t[i] = "N"} IN
    IF nls = {}
    THEN <<t>>
    ELSE LET i == MinOf(nls) IN
         <<SubSeq(t, 1, i - 1)>> \o split_lines(SubSeq(t, i + 1, Len(t)))

IsDigit(c) == c \in {"0", "1"}

HasPrefix(line, pre) == Len(line) >= Len(pre) /\ SubSeq(line, 1, Len(pre)) = pre

\* re.match(r'^(Speaker \d+|S\d+):\s*(.+)$', line): a label of either form,
\* one or more digits, a colon, and at least one more character.
speaker_match(line) ==
    \E pre \in {<<"S", "p", "e", "a", "k", "e", "r", " ">>, <<"S">>} :
        /\ HasPrefix(line, pre)
        /\ \E k \in (Len(pre) + 1)..Len(line) :
             /\ \A m \in (Len(pre) + 1)..k : IsDigit(line[m])
             /\ k + 1 <= Len(line)
             /\ line[k + 1] = ":"
             /\ Len(line) >= k + 2

\* Mutant of tts_close_chunk: the line that did not fit is lost.
tts_close_chunk_drop(done, current, line) ==
    [chunks |-> Append(done, JoinLines(current)),
     current |-> <<>>,
     tokens |-> 0]

\* The branch that closes the running chunk and starts the next with line.
tts_close_chunk(done, current, line) ==
    [chunks |-> Append(done, JoinLines(current)),
     current |-> <<line>>,
     tokens |-> estimate_tokens(line)]

\* The loop of split_script_for_tts from raw line i on, with the chunks
\* closed so far, the lines of the running chunk and its token count; the
\* final append included.
RECURSIVE tts_loop(_, _, _, _, _, _)
tts_loop(ls, i, done, current, tokens, size) ==
    IF i > Len(ls)
    THEN IF current # <<>> THEN Append(done, JoinLines(current)) ELSE done
    ELSE LET line == Strip(ls[i]) IN
         IF line = <<>>
         THEN tts_loop(ls, i + 1, done, current, tokens, size)
         ELSE IF speaker_match(line)
              THEN IF tokens + estimate_tokens(line) > size /\ current # <<>>
                   THEN LET c == tts_close_chunk(done, current, line) IN
                        tts_loop(ls, i + 1, c.chunks, c.current, c.tokens, size)
                   ELSE tts_loop(ls, i + 1, done, Append(current, line),
                                 tokens + estimate_tokens(line), size)
              ELSE tts_loop(ls, i + 1, done, Append(current, line),
                            tokens + estimate_tokens(line), size)

\* TextSplitter.split_script_for_tts
split_script_for_tts(script_text, size) ==
    tts_loop(split_lines(script_text), 1, <<>>, <<>>, 0, size)

\* TextSplitter(chunk_size) and the script of one split_script_for_tts call.
TtsSplitInit ==
    /\ OrchIdle
    /\ StageIdle
    /\ spc = "ready"
    /\ text \in Scripts
    /\ chunk_size \in 1..MaxBudget
    /\ client = "none"
    /\ chunks = <<>>

\* The call split_script_for_tts(script).
call_split_script_for_tts ==
    /\ spc = "ready"
    /\ chunks' = split_script_for_tts(text, chunk_size)
    /\ spc' = "done"
    /\ UNCHANGED <<text, chunk_size, client>>
    /\ UNCHANGED <<orchVars, stageVars>>

TtsSplitNext == call_split_script_for_tts

TtsSplitSpec == TtsSplitInit /\ [][TtsSplitNext]_vars

(***************************************************************************)
(* Claims about split_script_for_tts (checked under TtsSplitSpec)          *)
(***************************************************************************)
RECURSIVE Flatten(_)
Flatten(ss) == IF ss = <<>> THEN <<>> ELSE Head(ss) \o Flatten(Tail(ss))

\* The speaker lines of the script, trimmed, in their order.
SpeakerLines(script_text) ==
    SelectSeq([i \in 1..Len(split_lines(script_text)) |->
                   Strip(split_lines(script_text)[i])],
              speaker_match)

\* The speaker lines that stand in a chunk, in their order.
ChunkSpeakerLines(c) == SelectSeq(split_lines(c), speaker_match)

\* C11: every speaker line of the script, trimmed, stands complete as a line
\* of exactly one chunk of split_script_for_tts, never divided and never
\* duplicated, and the speaker lines keep their relative order across the
\* chunks: the speaker lines of the chunks, read in chunk order, are the
\* speaker lines of the script.
C11_NarrationAtomicity ==
    spc = "done" =>
        Flatten([i \in 1..Len(chunks) |-> ChunkSpeakerLines(chunks[i])])
            = SpeakerLines(text)

\* C11's case: two speaker lines of the script ended up in different chunks.
C11_Witness ==
    /\ spc = "done"
    /\ Len(chunks) >= 2
    /\ Len(SpeakerLines(text)) >= 2
    /\ ChunkSpeakerLines(chunks[1]) # <<>>
    /\ ChunkSpeakerLines(chunks[2]) # <<>>

(***************************************************************************)
(* _merge_script_parts and _remove_introduction (pipeline/build_script.py) *)
(*                                                                         *)
(*   "h"  an intro marker spelt in lower case ('hello', 'welcome', ...)    *)
(*   "H"  the same marker spelt in upper case ('Hello')                    *)
(***************************************************************************)
\* str.lower()
\* Mutant of Lower: the line is compared as written, case included.
Lower_as_written(c) == c

Lower(c) == IF c = "H" THEN "h" ELSE c

\* any(intro_word in line.lower() for intro_word in [...])
contains_intro_word(line) == \E i \in 1..Len(line) : Lower(line[i]) = "h"

\* _remove_introduction: the fragment from its first line that is not blank
\* and holds no intro marker; the whole fragment when there is none.
remove_introduction(part) ==
    LET lines == split_lines(part)
        found == {i \in 1..Len(lines) :
                    Strip(lines[i]) # <<>> /\ ~contains_intro_word(lines[i])}
        start_index == IF found = {} THEN 1 ELSE MinOf(found)
    IN  JoinLines(SubSeq(lines, start_index, Len(lines)))

\* Mutant of merge_single: the only fragment is stripped like a later one.
merge_single_cleaned(parts) == remove_introduction(parts[1])

\* The branch of _merge_script_parts for one fragment.
merge_single(parts) == parts[1]

\* Mutant of merge_next: the later fragment keeps its introduction.
merge_next_raw(merged, part) ==
    IF part # <<>> THEN merged \o <<"N", "N">> \o part ELSE merged

\* The loop body of _merge_script_parts for a fragment after the first.
merge_next(merged, part) ==
    LET cleaned_part == remove_introduction(part) IN
    IF cleaned_part # <<>> THEN merged \o <<"N", "N">> \o cleaned_part ELSE merged

\* The loop of _merge_script_parts from fragment i on; "".join included.
RECURSIVE merge_loop(_, _, _)
merge_loop(parts, i, merged) ==
    IF i > Len(parts) THEN merged
    ELSE IF i = 1 THEN merge_loop(parts, i + 1, merged \o parts[i])
    ELSE merge_loop(parts, i + 1, merge_next(merged, parts[i]))

\* _merge_script_parts
merge_script_parts(parts) ==
    IF parts = <<>> THEN <<>>
    ELSE IF Len(parts) = 1 THEN merge_single(parts)
    ELSE merge_loop(parts, 1, <<>>)

\* number of fragments given to _merge_script_parts
MaxParts == 3

\* The fragments: empty, whitespace, content only, intro only, intro before
\* content, blank and whitespace lines before content, intro after content.
Fragments ==
    { <<>>,
      <<" ">>,
      <<"a">>,
      <<"h">>,
      <<"h", "N", "a">>,
      <<"H", "a", "N", "a">>,
      <<"N", "h", "N", "a", "N", "h">>,
      <<" ", "N", "a", "N">>,
      <<"h", "N", "H">>,
      <<"a", "N", "h">>,
      <<"h", "N", " ", "N", "N", "a", "a">> }

\* The argument of one _merge_script_parts call.
MergeInit ==
    /\ NotScriptIdle
    /\ bpc = "merge"
    /\ content_tokens = 0
    /\ script_parts \in UNION {[1..n -> Fragments] : n \in 0..MaxParts}
    /\ calls = 0
    /\ script = <<>>
    /\ did_split = FALSE
    /\ nchunks = 0
    /\ did_merge = FALSE
    /\ script_written = FALSE
    /\ call_log = <<>>

\* The call _merge_script_parts(script_parts).
call_merge_script_parts ==
    /\ bpc = "merge"
    /\ script' = merge_script_parts(script_parts)
    /\ bpc' = "merged"
    /\ UNCHANGED <<content_tokens, script_parts, calls, did_split, nchunks,
                   did_merge, script_written, call_log>>
    /\ UNCHANGED notScript

MergeNext == call_merge_script_parts

MergeSpec == MergeInit /\ [][MergeNext]_vars

(***************************************************************************)
(* Claims about _merge_script_parts (checked under MergeSpec)              *)
(***************************************************************************)
\* C12: _merge_script_parts returns the empty string for zero fragments and
\* the fragment itself, unchanged, for one fragment, whatever the fragment
\* is (intro lines only included).
C12_MergeSingle ==
    bpc = "merged" =>
        /\ (script_parts = <<>> => script = <<>>)
        /\ (Len(script_parts) = 1 => script = script_parts[1])

\* C12's case: one fragment that the introduction removal would shorten.
C12_Witness ==
    /\ bpc = "merged"
    /\ Len(script_parts) = 1
    /\ remove_introduction(script_parts[1]) # script_parts[1]
    /\ script = script_parts[1]

\* The first fragment followed by every later fragment, introduction
\* removed, each behind the separator of one blank line.
JoinedAll(parts) ==
    parts[1] \o Flatten([i \in 1..(Len(parts) - 1) |->
                            <<"N", "N">> \o remove_introduction(parts[i + 1])])

\* The same, a later fragment that is empty adding nothing, no separator
\* either.
JoinedNonEmpty(parts) ==
    parts[1] \o Flatten([i \in 1..(Len(parts) - 1) |->
                            IF remove_introduction(parts[i + 1]) = <<>>
                            THEN <<>>
                            ELSE <<"N", "N">> \o remove_introduction(parts[i + 1])])

DefaultTokenLimit == 30000

\* config.chunk_size, the budget TextSplitter() splits against
ConfigChunkSize == 800

\* number of chunks the chunker may return for a content above its budget
MaxChunks == 3

ContentTokens ==
    {0, ConfigChunkSize, ConfigChunkSize + 1, DefaultTokenLimit, DefaultTokenLimit + 1}

\* len(splitter.split_by_tokens(content, llm_client)): one chunk, the content
\* itself, within the chunker's budget; any number of chunks above it (none
\* for a blank content).
ChunkCounts(tokens) ==
    IF tokens > ConfigChunkSize THEN 0..MaxChunks ELSE {1}

\* The texts LLMClient.generate may return: never the empty text.
Generated == Fragments \ {<<>>}

\* Mutant of gate_exceeded: the gate compares with the chunker's budget.
gate_exceeded_chunk_size(tokens) == tokens > ConfigChunkSize

\* llm_client.is_token_limit_exceeded(content), the limit left to its default
gate_exceeded(tokens) == tokens > DefaultTokenLimit

\* One llm_client.generate call of build_script: the chunk it is for (its
\* position in chunks, 0 for the whole content) and the text it returned,
\* empty when the call raised.
Call(chunk, returned) == [chunk |-> chunk, text |-> returned]

\* Mutant of append_part: the new fragment is put before the earlier ones.
append_part_front(parts, part) == <<part>> \o parts

\* script_parts.append(script_part)
append_part(parts, part) == Append(parts, part)

ScriptInit ==
    /\ NotScriptIdle
    /\ bpc = "start"
    /\ content_tokens \in ContentTokens
    /\ script_parts = <<>>
    /\ calls = 0
    /\ script = <<>>
    /\ did_split = FALSE
    /\ nchunks = 0
    /\ did_merge = FALSE
    /\ script_written = FALSE
    /\ call_log = <<>>

\* if llm_client.is_token_limit_exceeded(content): chunks = split_by_tokens(...)
check_token_limit ==
    /\ bpc = "start"
    /\ IF gate_exceeded(content_tokens)
       THEN /\ \E n \in ChunkCounts(content_tokens) : nchunks' = n
            /\ did_split' = TRUE
            /\ bpc' = "chunks"
       ELSE /\ bpc' = "single"
            /\ UNCHANGED <<nchunks, did_split>>
    /\ UNCHANGED <<content_tokens, script_parts, calls, script, did_merge,
                   script_written, call_log>>
    /\ UNCHANGED notScript

\* One pass of the loop over the chunks: the generation call for the next
\* chunk, its text appended, or its error leaving build_script.
generate_chunk ==
    /\ bpc = "chunks"
    /\ Len(script_parts) < nchunks
    /\ calls' = calls + 1
    /\ \/ /\ \E part \in Generated :
               /\ script_parts' = append_part(script_parts, part)
               /\ call_log' = Append(call_log, Call(Len(script_parts) + 1, part))
          /\ UNCHANGED bpc
       \/ /\ bpc' = "raised"
          /\ call_log' = Append(call_log, Call(Len(script_parts) + 1, <<>>))
          /\ UNCHANGED script_parts
    /\ UNCHANGED <<content_tokens, script, did_split, nchunks, did_merge,
                   script_written>>
    /\ UNCHANGED notScript

\* script = _merge_script_parts(script_parts), after the loop
merge_parts ==
    /\ bpc = "chunks"
    /\ Len(script_parts) = nchunks
    /\ script' = merge_script_parts(script_parts)
    /\ did_merge' = TRUE
    /\ bpc' = "generated"
    /\ UNCHANGED <<content_tokens, script_parts, calls, did_split, nchunks,
                   script_written, call_log>>
    /\ UNCHANGED notScript

\* The else branch: one generation call for the whole content.
generate_single ==
    /\ bpc = "single"
    /\ calls' = calls + 1
    /\ \/ /\ \E part \in Generated :
               /\ script' = part
               /\ call_log' = Append(call_log, Call(0, part))
          /\ bpc' = "generated"
       \/ /\ bpc' = "raised"
          /\ call_log' = Append(call_log, Call(0, <<>>))
          /\ UNCHANGED script
    /\ UNCHANGED <<content_tokens, script_parts, did_split, nchunks, did_merge,
                   script_written>>
    /\ UNCHANGED notScript

\* script.md is written and its path returned (the text written is the
\* post-processed script; script keeps the text before post-processing).
save_script ==
    /\ bpc = "generated"
    /\ script_written' = TRUE
    /\ bpc' = "done"
    /\ UNCHANGED <<content_tokens, script_parts, calls, script, did_split,
                   nchunks, did_merge, call_log>>
    /\ UNCHANGED notScript

ScriptNext ==
    \/ check_token_limit
    \/ generate_chunk
    \/ merge_parts
    \/ generate_single
    \/ save_script

ScriptSpec == ScriptInit /\ [][ScriptNext]_vars

(***************************************************************************)
(* Claims about build_script (checked under ScriptSpec)                    *)
(***************************************************************************)
\* C14: the script stage calls the chunker if and only if the cost of the
\* content exceeds the chunk budget the chunker splits against; a content
\* within that budget gets exactly one generation call, a content above it
\* one call per chunk and then the merge.
C14_ChunkIffOverBudget ==
    /\ bpc # "start" => (did_split <=> content_tokens > ConfigChunkSize)
    /\ bpc = "done" =>
         IF content_tokens > ConfigChunkSize
         THEN calls = nchunks /\ did_merge
         ELSE calls = 1 /\ ~did_merge

\* What the stage does: the gate is the service's token limit.
C14_ChunkIffOverTokenLimit ==
    /\ bpc # "start" => (did_split <=> content_tokens > DefaultTokenLimit)
    /\ bpc = "done" =>
         IF content_tokens > DefaultTokenLimit
         THEN calls = nchunks /\ did_merge
         ELSE calls = 1 /\ ~did_merge

\* C14's failing case: a content above the chunk budget went through the
\* stage in one generation call, the chunker never called.
C14_UnchunkedOverBudget ==
    /\ bpc = "done"
    /\ content_tokens > ConfigChunkSize
    /\ ~did_split
    /\ calls = 1

(***************************************************************************)
(* The retry loop of LLMClient.generate and TTSClient.generate_audio       *)
(*                                                                         *)
(* The service answers an attempt with a result ("ok": a non-empty text,   *)
(* at least one audio segment), with nothing ("empty": an empty text, no   *)
(* audio data, which the code turns into a ValueError) or with an          *)
(* exception ("exception").                                                *)
(***************************************************************************)
\* largest max_retries of the generation-call scenario
MaxRetries == 4

Responses == {"ok", "empty", "exception"}

\* Mutant of may_retry: the loop gives up one attempt early.
may_retry_early(a, n) == a < n - 2

\* if attempt < max_retries - 1: sleep and retry, else re-raise
may_retry(a, n) == a < n - 1

\* Mutant of wait_time: the attempts are counted from one.
wait_time_from_one(a) == 2 ^ (a + 1)

\* wait_time = 2 ** attempt, the argument of time.sleep
wait_time(a) == 2 ^ a

RetryInit ==
    /\ NotRetryIdle
    /\ rpc = "loop"
    /\ rclient \in {"llm", "tts"}
    /\ max_retries \in 0..MaxRetries
    /\ attempt = 0
    /\ responses = <<>>
    /\ waits = <<>>
    /\ rresult = NoResult
    /\ rerror = NoError

\* One pass of the loop `for attempt in range(max_retries)`: the request,
\* the return of its result, or the except clause (back off and go on, or
\* re-raise the exception of this attempt).
retry_attempt(cl) ==
    /\ rpc = "loop"
    /\ rclient = cl
    /\ attempt < max_retries
    /\ \E r \in Responses :
         /\ responses' = Append(responses, r)
         /\ IF r = "ok"
            THEN /\ rresult' = [attempt |-> attempt]
                 /\ rpc' = "returned"
                 /\ UNCHANGED <<attempt, waits, rerror>>
            ELSE IF may_retry(attempt, max_retries)
            THEN /\ waits' = Append(waits, wait_time(attempt))
                 /\ attempt' = attempt + 1
                 /\ UNCHANGED <<rpc, rresult, rerror>>
            ELSE /\ rerror' = [attempt |-> attempt, cause |-> r]
                 /\ rpc' = "raised"
                 /\ UNCHANGED <<attempt, waits, rresult>>
    /\ UNCHANGED <<rclient, max_retries>>
    /\ UNCHANGED notRetry

\* LLMClient.generate, one attempt
generate_attempt == retry_attempt("llm")

\* TTSClient.generate_audio, one attempt
generate_audio_attempt == retry_attempt("tts")

\* The raise after the loop, reached when the loop ends without a return
\* or a re-raise.
loop_exhausted ==
    /\ rpc = "loop"
    /\ attempt >= max_retries
    /\ rerror' = [attempt |-> max_retries, cause |-> "exhausted"]
    /\ rpc' = "raised"
    /\ UNCHANGED <<rclient, max_retries, attempt, responses, waits, rresult>>
    /\ UNCHANGED notRetry

RetryNext ==
    \/ generate_attempt
    \/ generate_audio_attempt
    \/ loop_exhausted

RetrySpec == RetryInit /\ [][RetryNext]_vars

(***************************************************************************)
(* Claims about the retry loop (checked under RetrySpec)                   *)
(***************************************************************************)
\* C15: with a maximum attempt count N >= 1, if every attempt fails (an
\* empty response is a failure) exactly N attempts are made and the error of
\* the last attempt is raised; if attempt k <= N is the first to succeed,
\* exactly k attempts are made and its result is returned, and no attempt
\* follows a return or a raise.
C15_state ==
    max_retries >= 1 =>
        /\ Len(responses) <= max_retries
        /\ \A i \in 1..(Len(responses) - 1) : responses[i] # "ok"
        /\ rpc = "raised" =>
             /\ Len(responses) = max_retries
             /\ \A i \in 1..max_retries : responses[i] # "ok"
             /\ rerror = [attempt |-> max_retries - 1, cause |-> responses[max_retries]]
             /\ rresult = NoResult
        /\ rpc = "returned" =>
             /\ responses[Len(responses)] = "ok"
             /\ rresult = [attempt |-> Len(responses) - 1]
             /\ rerror = NoError
        /\ (rpc = "loop" /\ responses # <<>>) => responses[Len(responses)] # "ok"

C15_step == (rpc \in {"returned", "raised"}) => (responses' = responses)

C15_RetryBound == [](C15_state) /\ [][C15_step]_vars

\* C15's cases: a call that failed on every one of three attempts, the last
\* with an empty response.
C15_Witness ==
    /\ rpc = "raised"
    /\ max_retries = 3
    /\ responses = <<"exception", "empty", "empty">>
    /\ rerror = [attempt |-> 2, cause |-> "empty"]

\* A call that succeeded at its second attempt of three.
C15_SuccessWitness ==
    /\ rpc = "returned"
    /\ max_retries = 3
    /\ responses = <<"empty", "ok">>

(***************************************************************************)
(* build_audio (pipeline/build_audio.py) with TTSClient.generate_audio     *)
(*                                                                         *)
(* The script is given by the number of chunks split_script_for_tts cut it *)
(* into.  A synthesis attempt streams a number of audio segments, each     *)
(* saved at once as chunks/audio_chunk_<file_index>.wav with file_index    *)
(* counting from 0 in every attempt, and then ends or breaks off with an   *)
(* exception.  The bytes of a segment are named by the chunk, the attempt  *)
(* and the place in the stream they came from.  The segments carry raw PCM *)
(* data, for which the code picks the extension .wav.                      *)
(***************************************************************************)
\* number of chunks of the script
MaxScriptChunks == 2

\* number of audio segments one synthesis attempt may stream
MaxSegments == 2

\* max_retries: int = 3, the default generate_audio is called with
DefaultMaxRetries == 3

FileIndexes == 0..(MaxSegments - 1)

\* The bytes of segment j of attempt a for chunk c.
Segment(c, a, j) == [chunk |-> c, try |-> a, seg |-> j]

\* No file of that name.
NoFile == [chunk |-> 0, try |-> 0, seg |-> 0]

FfmpegResults == {"ok", "nonzero", "timeout", "absent", "error"}

AudioInit ==
    /\ NotAudioIdle
    /\ apc = "synth"
    /\ n_script_chunks \in 0..MaxScriptChunks
    /\ chunk_index = 1
    /\ tts_attempt = 0
    /\ chunk_files = [f \in FileIndexes |-> NoFile]
    /\ audio_files = <<>>
    /\ produced = <<>>
    /\ synthesized = {}
    /\ combine_result = "none"
    /\ podcast_wav = <<>>
    /\ ffmpeg_result = "none"
    /\ pydub_result = "none"
    /\ final_path = "none"

\* The files after attempt a for chunk c saved k segments: segment j goes to
\* audio_chunk_<j>.wav, file_index starting at 0 in every attempt.
save_segments(fs, c, a, k) ==
    [f \in FileIndexes |-> IF f < k THEN Segment(c, a, f) ELSE fs[f]]

\* Mutant of chunk_failed: the error of a chunk ends the loop.
chunk_failed_abort(i, n) == n + 1

\* except Exception ... continue: the loop goes on with the next chunk.
chunk_failed(i, n) == i + 1

\* One attempt of the generate_audio call for the chunk the loop is at: k
\* segments are streamed and saved; the attempt returns its files when the
\* stream ends and there is one at least, else it fails, and the call backs
\* off and tries again, or raises and build_audio skips the chunk.
synth_attempt ==
    /\ apc = "synth"
    /\ chunk_index <= n_script_chunks
    /\ synthesized' = synthesized \cup {chunk_index}
    /\ \E k \in 0..MaxSegments, completed \in BOOLEAN :
         /\ chunk_files' = save_segments(chunk_files, chunk_index, tts_attempt, k)
         /\ IF completed /\ k >= 1
            THEN /\ audio_files' = audio_files \o [j \in 1..k |-> j - 1]
                 /\ produced' = Append(produced,
                        [j \in 1..k |-> Segment(chunk_index, tts_attempt, j - 1)])
                 /\ chunk_index' = chunk_index + 1
                 /\ tts_attempt' = 0
            ELSE IF may_retry(tts_attempt, DefaultMaxRetries)
            THEN /\ tts_attempt' = tts_attempt + 1
                 /\ UNCHANGED <<audio_files, produced, chunk_index>>
            ELSE /\ chunk_index' = chunk_failed(chunk_index, n_script_chunks)
                 /\ tts_attempt' = 0
                 /\ UNCHANGED <<audio_files, produced>>
    /\ UNCHANGED <<apc, n_script_chunks, combine_result, podcast_wav,
                   ffmpeg_result, pydub_result, final_path>>
    /\ UNCHANGED notAudio

\* After the loop: None when no file was collected; else _combine_audio_files:
\* one file is copied, several are read and joined by the audio library,
\* whose failure yields None.
combine_audio ==
    /\ apc = "synth"
    /\ chunk_index > n_script_chunks
    /\ IF audio_files = <<>>
       THEN /\ final_path' = "None"
            /\ apc' = "done"
            /\ UNCHANGED <<combine_result, podcast_wav>>
       ELSE \E combineOk \in BOOLEAN :
            IF Len(audio_files) = 1 \/ combineOk
            THEN /\ podcast_wav' = [i \in 1..Len(audio_files) |->
                                        chunk_files[audio_files[i]]]
                 /\ combine_result' = IF Len(audio_files) = 1 THEN "copied"
                                      ELSE "joined"
                 /\ apc' = "ffmpeg"
                 /\ UNCHANGED final_path
            ELSE /\ combine_result' = "failed"
                 /\ final_path' = "None"
                 /\ apc' = "done"
                 /\ UNCHANGED podcast_wav
    /\ UNCHANGED <<n_script_chunks, chunk_index, tts_attempt, chunk_files,
                   audio_files, produced, synthesized, ffmpeg_result,
                   pydub_result>>
    /\ UNCHANGED notAudio

\* Mutant of ffmpeg_converted: the return code of the tool is not looked at.
ffmpeg_converted_any_code(r) == r \in {"ok", "nonzero"}

\* _convert_with_ffmpeg returns True: the tool ran and returned 0.
ffmpeg_converted(r) == r = "ok"

\* _convert_with_ffmpeg, first strategy of _convert_to_mp3
convert_with_ffmpeg ==
    /\ apc = "ffmpeg"
    /\ \E r \in FfmpegResults :
         /\ ffmpeg_result' = r
         /\ apc' = IF ffmpeg_converted(r) THEN "cleanup" ELSE "pydub"
    /\ UNCHANGED <<n_script_chunks, chunk_index, tts_attempt, chunk_files,
                   audio_files, produced, synthesized, combine_result,
                   podcast_wav, pydub_result, final_path>>
    /\ UNCHANGED notAudio

\* _convert_with_pydub, second strategy of _convert_to_mp3
convert_with_pydub ==
    /\ apc = "pydub"
    /\ \E r \in {"ok", "error"} : pydub_result' = r
    /\ apc' = "cleanup"
    /\ UNCHANGED <<n_script_chunks, chunk_index, tts_attempt, chunk_files,
                   audio_files, produced, synthesized, combine_result,
                   podcast_wav, ffmpeg_result, final_path>>
    /\ UNCHANGED notAudio

\* mp3_path of build_audio: podcast.mp3 when a strategy returned True
mp3_converted == ffmpeg_converted(ffmpeg_result) \/ pydub_result = "ok"

\* _cleanup_temp_files (a failure is only logged) and the return of
\* final_path = mp3_path if mp3_path else combined_audio_path.
cleanup_and_return ==
    /\ apc = "cleanup"
    /\ \E cleanupOk \in BOOLEAN :
         chunk_files' = IF cleanupOk THEN [f \in FileIndexes |-> NoFile]
                        ELSE chunk_files
    /\ final_path' = IF mp3_converted THEN "podcast.mp3" ELSE "podcast.wav"
    /\ apc' = "done"
    /\ UNCHANGED <<n_script_chunks, chunk_index, tts_attempt, audio_files,
                   produced, synthesized, combine_result, podcast_wav,
                   ffmpeg_result, pydub_result>>
    /\ UNCHANGED notAudio

AudioNext ==
    \/ synth_attempt
    \/ combine_audio
    \/ convert_with_ffmpeg
    \/ convert_with_pydub
    \/ cleanup_and_return

AudioSpec == AudioInit /\ [][AudioNext]_vars

(***************************************************************************)
(* Claims about build_audio (checked under AudioSpec)                      *)
(***************************************************************************)
\* The chunks whose synthesis call returned audio, in the order of the calls.
ProducedChunks == [i \in 1..Len(produced) |-> produced[i][1].chunk]

\* Every chunk of the script had its synthesis call, a failed one not
\* stopping the loop, once the loop is over.
C16_AllChunksTried ==
    (apc # "synth" \/ chunk_index > n_script_chunks) =>
        synthesized = 1..n_script_chunks

\* C16 as stated: a chunk whose synthesis call fails is skipped and the later
\* chunks are still synthesized; the stage returns no audio artifact only if
\* no chunk produced audio.
C16_FailsOnlyIfNoAudio ==
    /\ C16_AllChunksTried
    /\ (apc = "done" /\ final_path = "None") => produced = <<>>

\* C16 amended: the stage returns no audio artifact only if no chunk produced
\* audio or the joining of two or more segment files failed.
C16_FailsOnlyIfNoAudioOrNoJoin ==
    /\ C16_AllChunksTried
    /\ (apc = "done" /\ final_path = "None") =>
          \/ produced = <<>>
          \/ (combine_result = "failed" /\ Len(audio_files) >= 2)
    /\ (apc = "done" /\ produced # <<>> /\ combine_result # "failed") =>
          final_path \in {"podcast.wav", "podcast.mp3"}

\* C16's case: the call for the first chunk failed, the second chunk was
\* synthesized all the same and the stage returned an audio file.
C16_Witness ==
    /\ apc = "done"
    /\ n_script_chunks = 2
    /\ ProducedChunks = <<2>>
    /\ final_path \in {"podcast.wav", "podcast.mp3"}

\* The stage returned nothing although a chunk had produced audio.
C16_JoinFailedWitness ==
    /\ apc = "done"
    /\ produced # <<>>
    /\ final_path = "None"

\* C17: podcast.wav is the concatenation, in chunk order, of all segments the
\* successful synthesis calls returned: each segment once, with the bytes
\* the call returned, in arrival order within a chunk.
C17_Concatenation ==
    combine_result \in {"copied", "joined"} => podcast_wav = Flatten(produced)

\* C17's failing case: two chunks were synthesized and podcast.wav holds the
\* segment of the second chunk twice, that of the first not at all.
C17_Overwritten ==
    /\ combine_result = "joined"
    /\ Len(produced) = 2
    /\ podcast_wav = <<produced[2][1], produced[2][1]>>
    /\ produced[1][1] # produced[2][1]

\* C20: a failed transcoding never fails the stage: when the codec tool is
\* absent, times out or exits non-zero the library transcoder is attempted;
\* when that fails too the stage returns podcast.wav; it returns podcast.mp3
\* exactly when one of the two strategies succeeded.
C20_TranscodeSoft ==
    /\ (apc \in {"cleanup", "done"} /\ ffmpeg_result \in FfmpegResults \ {"ok"}) =>
          pydub_result # "none"
    /\ (apc = "done" /\ ffmpeg_result # "none") =>
          /\ final_path \in {"podcast.wav", "podcast.mp3"}
          /\ final_path = "podcast.mp3" <=>
                (ffmpeg_result = "ok" \/ pydub_result = "ok")
          /\ (ffmpeg_result # "ok" /\ pydub_result = "error") =>
                final_path = "podcast.wav"

\* C20's case: the codec tool timed out, the library transcoder failed and
\* the stage returned the wav.
C20_Witness ==
    /\ apc = "done"
    /\ ffmpeg_result = "timeout"
    /\ pydub_result = "error"
    /\ final_path = "podcast.wav"

\* The codec tool was absent and the library transcoder produced the mp3.
C20_FallbackWitness ==
    /\ apc = "done"
    /\ ffmpeg_result = "absent"
    /\ pydub_result = "ok"
    /\ final_path = "podcast.mp3"

(***************************************************************************)
(* _generate_flashcard_yaml, _post_process_yaml and _generate_fallback_yaml*)
(* (pipeline/build_questions.py)                                           *)
(*                                                                         *)
(* The text of the keyword section is a sequence of tokens:                *)
(*   "Q"  a question marker **Q<digits>:**                                 *)
(*   "A"  the answer marker **A:**                                         *)
(*   "t"  a character of a question or an answer                           *)
(*   "-"  the bullet of a list item                                        *)
(*   "C"  a comment <!-- ... -->                                           *)
(*   " "  whitespace                                                       *)
(* A YAML document is given by whether it loads and by the flashcards it   *)
(* lists.                                                                  *)
(***************************************************************************)
\* number of keyword Q/A pairs of the section
MaxPairs == 3

Digit == <<"0", "1", "2", "3", "4", "5", "6", "7", "8", "9">>

\* str(n) for n >= 0
RECURSIVE ToDecimal(_)
ToDecimal(n) ==
    IF n < 10 THEN <<Digit[n + 1]>>
    ELSE ToDecimal(n \div 10) \o <<Digit[(n % 10) + 1]>>

\* Mutant of flashcard_id: the number of the pair is left out of the id.
flashcard_id_fixed(i) == <<"k", "0", "1">>

\* f'keyword_{i+1:02d}' for the pair at index i of enumerate; "k" stands
\* for the prefix keyword_.
flashcard_id(i) ==
    <<"k">> \o (IF i + 1 < 10 THEN <<"0">> ELSE <<>>) \o ToDecimal(i + 1)

\* The first position after j that holds no whitespace, 0 when there is none.
NextNonSpace(s, j) ==
    LET ns == {m \in (j + 1)..Len(s) : ~IsSpace(s[m])} IN
    IF ns = {} THEN 0 ELSE MinOf(ns)

\* The whitespace run that starts at position j + 1.
SpaceRun(s, j) ==
    LET n == NextNonSpace(s, j) IN
    IF n = 0 THEN Len(s) - j ELSE n - j - 1

\* The match of
\*   \*\*Q\d+:\*\*\s*(.+?)\s*\*\*A:\*\*\s*(.+?)(?=\*\*Q\d+:|$)   (DOTALL)
\* that starts at position p: \s* takes all the whitespace it can, a group
\* the fewest characters it can, one at least.
qa_match_at(s, p) ==
    LET QEnds(k) == {j \in (p + k + 1)..Len(s) :
                        /\ NextNonSpace(s, j) # 0
                        /\ s[NextNonSpace(s, j)] = "A"
                        /\ NextNonSpace(s, j) < Len(s)}
        ks == {k \in 0..SpaceRun(s, p) : QEnds(k) # {}}
    IN  IF s[p] # "Q" \/ ks = {}
        THEN [found |-> FALSE, question |-> <<>>, answer |-> <<>>, end |-> p]
        ELSE LET k  == MaxOf(ks)
                 j  == MinOf(QEnds(k))
                 a  == NextNonSpace(s, j)
                 w  == MaxOf({x \in 0..SpaceRun(s, a) : a + x + 1 <= Len(s)})
                 e  == MinOf({x \in (a + w + 1)..Len(s) :
                                 x = Len(s) \/ s[x + 1] = "Q"})
             IN  [found |-> TRUE,
                  question |-> SubSeq(s, p + k + 1, j),
                  answer |-> SubSeq(s, a + w + 1, e),
                  end |-> e]

\* re.findall(qa_pattern, keyword_qa, re.DOTALL) from position p on: the
\* matches from left to right, none overlapping another.
RECURSIVE qa_findall(_, _)
qa_findall(s, p) ==
    LET ps == {q \in p..Len(s) : qa_match_at(s, q).found} IN
    IF ps = {} THEN <<>>
    ELSE LET m == qa_match_at(s, MinOf(ps)) IN
         <<m>> \o qa_findall(s, m.end + 1)

\* re.sub(r'<!--.*?-->', '', answer)
remove_comments(t) == SelectSeq(t, LAMBDA c : c # "C")

\* The document yaml.dump writes for a list of flashcards.
Yaml(cards) == [wellformed |-> TRUE, cards |-> cards]

\* _generate_fallback_yaml
generate_fallback_yaml(qa) ==
    LET matches == qa_findall(qa, 1) IN
    Yaml([i \in 1..Len(matches) |->
            [id |-> flashcard_id(i - 1),
             front |-> Strip(matches[i].question),
             back |-> Strip(remove_comments(Strip(matches[i].answer)))]])

\* The questions and the answers of the pairs.
QaQuestions == {<<"t">>, <<"t", " ", "t">>}

QaAnswers == {<<"t">>, <<"t", " ", "C">>}

QaPairs == [question : QaQuestions, answer : QaAnswers]

\* The section as the generation service writes it for the pairs: each pair
\* after an optional bullet, its parts set apart by whitespace or not.
RECURSIVE render_qa(_, _, _)
render_qa(pairs, bullet, sep) ==
    IF pairs = <<>> THEN <<>>
    ELSE bullet \o <<"Q">> \o sep \o Head(pairs).question \o sep
            \o <<"A">> \o sep \o Head(pairs).answer \o sep
            \o render_qa(Tail(pairs), bullet, sep)

\* The ids the service may give its flashcards.
ServiceIds == {flashcard_id(0), flashcard_id(1)}

ServiceCards(ids) ==
    [i \in 1..Len(ids) |-> [id |-> ids[i], front |-> <<"t">>, back |-> <<"t">>]]

\* What the generation call may return: a text with or without a code fence
\* and explanations around the document, with or without a flashcards: line,
\* the document from that line on loading or not.
ServiceOutputs ==
    [wrapped : BOOLEAN, has_key : BOOLEAN, wellformed : BOOLEAN,
     cards : {ServiceCards(ids) : ids \in UNION {[1..n -> ServiceIds] : n \in 0..2}}]

\* _post_process_yaml: the code fences removed and the lines from the first
\* flashcards: line on kept; nothing is kept when there is no such line, and
\* the empty text loads.
post_process_yaml(out) ==
    IF out.has_key
    THEN [wellformed |-> out.wellformed, cards |-> out.cards]
    ELSE Yaml(<<>>)

\* yaml.safe_load(yaml_content) raises no YAMLError
safe_load_ok(y) == y.wellformed

\* Mutant of fallback_needed: a document that does not load is kept.
fallback_needed_never(y) == FALSE

\* except yaml.YAMLError: the fallback is taken
fallback_needed(y) == ~safe_load_ok(y)

\* keyword_qa is not empty: build_questions calls _generate_flashcard_yaml
\* only then.
FlashInit ==
    /\ NotFlashIdle
    /\ fpc = "start"
    /\ qa_pairs \in UNION {[1..n -> QaPairs] : n \in 1..MaxPairs}
    /\ keyword_qa \in {render_qa(qa_pairs, bullet, sep) :
                          bullet \in {<<>>, <<"-", " ">>}, sep \in {<<>>, <<" ">>}}
    /\ fcalls = 0
    /\ yaml_content = "none"
    /\ yaml_writes = <<>>

\* The generation call, _post_process_yaml and the first write of
\* flashcards.yaml; the error of the call leaves the function.
generate_flashcards ==
    /\ fpc = "start"
    /\ fcalls' = fcalls + 1
    /\ \/ /\ \E out \in ServiceOutputs :
               /\ yaml_content' = post_process_yaml(out)
               /\ yaml_writes' = Append(yaml_writes, post_process_yaml(out))
          /\ fpc' = "written"
       \/ /\ fpc' = "raised"
          /\ UNCHANGED <<yaml_content, yaml_writes>>
    /\ UNCHANGED <<qa_pairs, keyword_qa>>
    /\ UNCHANGED notFlash

\* The validation: yaml.safe_load, and on YAMLError the fallback document
\* written over the file; the path is returned.
validate_yaml ==
    /\ fpc = "written"
    /\ IF fallback_needed(yaml_content)
       THEN /\ yaml_content' = generate_fallback_yaml(keyword_qa)
            /\ yaml_writes' = Append(yaml_writes, generate_fallback_yaml(keyword_qa))
            /\ fpc' = "fallback"
       ELSE /\ fpc' = "returned"
            /\ UNCHANGED <<yaml_content, yaml_writes>>
    /\ UNCHANGED <<qa_pairs, keyword_qa, fcalls>>
    /\ UNCHANGED notFlash

FlashNext ==
    \/ generate_flashcards
    \/ validate_yaml

FlashSpec == FlashInit /\ [][FlashNext]_vars

(***************************************************************************)
(* Claims about the flashcards (checked under FlashSpec)                   *)
(***************************************************************************)
\* The flashcards the pairs stand for: ids and fronts, in the pairs' order.
IdsAndFronts(cards) == [i \in 1..Len(cards) |-> <<cards[i].id, cards[i].front>>]

ExpectedIdsAndFronts(pairs) ==
    [i \in 1..Len(pairs) |->
        <<(<<"k", "0">> \o <<Digit[i + 1]>>), Strip(pairs[i].question)>>]

\* C18: when the output of the flashcard generation call does not load as
\* structured data, the stage does not fail and makes no further service
\* call; flashcards.yaml is rewritten with the local fallback: one flashcard
\* per keyword Q/A pair, in the pairs' order, ids keyword_01, keyword_02,
\* ..., a function of the section alone.
C18_state ==
    /\ fpc # "start" => fcalls = 1
    /\ (fpc \in {"written", "fallback", "returned"}
            /\ ~safe_load_ok(yaml_writes[1])) =>
          /\ fpc # "returned"
          /\ fpc = "fallback" =>
               /\ Len(yaml_writes) = 2
               /\ yaml_content = yaml_writes[2]
               /\ safe_load_ok(yaml_content)
               /\ IdsAndFronts(yaml_content.cards) = ExpectedIdsAndFronts(qa_pairs)

C18_step == (fpc = "written" /\ ~safe_load_ok(yaml_content)) => fpc' = "fallback"

C18_FallbackFlashcards == [](C18_state) /\ [][C18_step]_vars

\* C18's case: the output did not load and the fallback wrote three
\* flashcards for the three pairs of a bulleted section.
C18_Witness ==
    /\ fpc = "fallback"
    /\ Len(qa_pairs) = 3
    /\ keyword_qa[1] = "-"
    /\ ~safe_load_ok(yaml_writes[1])
    /\ Len(yaml_content.cards) = 3
    /\ yaml_content.cards[3].id = <<"k", "0", "3">>

DistinctIds(cards) ==
    \A i, j \in 1..Len(cards) : i # j => cards[i].id # cards[j].id

\* C19: every content written to flashcards.yaml that loads lists flashcards
\* with pairwise distinct ids, whether it is the service's output or the
\* fallback.
C19_DistinctIds ==
    \A w \in 1..Len(yaml_writes) :
        safe_load_ok(yaml_writes[w]) => DistinctIds(yaml_writes[w].cards)

\* The same for the fallback alone.
C19_FallbackDistinctIds ==
    fpc = "fallback" => DistinctIds(yaml_content.cards)

\* C19's failing case: the service's output loads, lists two flashcards with
\* the same id, and is the file the stage returns.
C19_DuplicateFromService ==
    /\ fpc = "returned"
    /\ Len(yaml_content.cards) = 2
    /\ yaml_content.cards[1].id = yaml_content.cards[2].id

(***************************************************************************)
(* Claims about the output directory (checked under Spec)                  *)
(***************************************************************************)
\* C21: the output directory of a run is created once, at the very start of
\* the run and before ingest, at a path that did not exist: the
\* timestamp-named directory when it is free, else the first free one of
\* <name>_1, <name>_2, ...; no later step creates or deletes a directory,
\* so it is on disk after a completed and after an aborted run.
C21_state ==
    /\ pc = "idle" => (output_dir = NoDir /\ started = <<>>)
    /\ pc # "idle" => output_dir \in dirs

C21_step ==
    /\ pc = "idle" =>
         /\ output_dir' \notin dirs
         /\ \A e \in 0..(output_dir' - 1) : e \in dirs
         /\ dirs' = dirs \cup {output_dir'}
         /\ started' = <<>>
    /\ pc # "idle" => (dirs' = dirs /\ output_dir' = output_dir)

C21_OutputDirOnce == [](C21_state) /\ [][C21_step]_vars

\* C21's case: the timestamp-named directory and <name>_1 were taken, the
\* run got <name>_2, aborted, and the directory is still there.
C21_Witness ==
    /\ pc = "aborted"
    /\ output_dir = 2
    /\ dirs = {0, 1, 2}

\* The same after a completed run.
C21_DoneWitness ==
    /\ pc = "done"
    /\ output_dir = 1
    /\ retval = 1
    /\ dirs = {0, 1}

(***************************************************************************)
(* More claims about split_by_tokens (checked under SplitSpec)             *)
(***************************************************************************)
\* C22: every paragraph whose own cost exceeds the budget is split at
\* sentence granularity, wherever it stands in the text and whether or not
\* the running chunk is empty when it is reached: a paragraph above the
\* budget that has two sentences or more is never a chunk as a whole.
C22_OversizedParagraphSplit ==
    spc = "done" =>
        \A p \in InputParagraphs(text) :
            (Cost(client, p) > chunk_size /\ Len(sentences_of(p)) >= 2) =>
                \A i \in 1..Len(chunks) : chunks[i] # p

\* C22's failing case: a paragraph of two sentences above the budget, reached
\* with a running chunk that is not empty, became a chunk as a whole.
C22_WholeAfterRunningChunk ==
    /\ spc = "done"
    /\ Len(split_by_paragraphs(text)) = 2
    /\ Cost(client, split_by_paragraphs(text)[2]) > chunk_size
    /\ Len(sentences_of(split_by_paragraphs(text)[2])) = 2
    /\ chunks = split_by_paragraphs(text)

(***************************************************************************)
(* More claims about split_script_for_tts (checked under TtsSplitSpec)     *)
(***************************************************************************)
RECURSIVE SumEstimates(_)
SumEstimates(ls) ==
    IF ls = <<>> THEN 0 ELSE estimate_tokens(Head(ls)) + SumEstimates(Tail(ls))

\* C23: every chunk of split_script_for_tts that holds more than one line
\* has a total estimated cost, the sum of the estimates of its lines, within
\* the chunk budget; only a chunk of one line may exceed it.
C23_MultiLineChunkBudget ==
    spc = "done" =>
        \A i \in 1..Len(chunks) :
            Len(split_lines(chunks[i])) > 1 =>
                SumEstimates(split_lines(chunks[i])) <= chunk_size

\* C23's failing case: a line without speaker label was added to a running
\* chunk that it pushed over the budget.
C23_UnlabelledLineOverBudget ==
    /\ spc = "done"
    /\ \E i \in 1..Len(chunks) :
         LET ls == split_lines(chunks[i]) IN
         /\ Len(ls) = 2
         /\ speaker_match(ls[1])
         /\ ~speaker_match(ls[2])
         /\ estimate_tokens(ls[1]) <= chunk_size
         /\ SumEstimates(ls) > chunk_size

(***************************************************************************)
(* split_by_tokens on texts given paragraph by paragraph (ParaSplitSpec)   *)
(***************************************************************************)
MaxParas == 3

\* The paragraphs the texts are made of: of estimate 0, 1 and 2, one of two
\* sentences, and one sentence of estimate 3.
Paragraphs ==
    { <<"a">>,
      <<"b", "b">>,
      <<"c", "c", "c">>,
      <<"a", "K", "b">>,
      <<"d", "d", "d", "d", "d">> }

\* "\n\n".join(paragraphs)
RECURSIVE JoinParagraphs(_)
JoinParagraphs(ps) ==
    IF ps = <<>> THEN <<>>
    ELSE IF Len(ps) = 1 THEN ps[1]
    ELSE ps[1] \o <<"N", "N">> \o JoinParagraphs(Tail(ps))

ParagraphTexts ==
    {JoinParagraphs(ps) : ps \in UNION {[1..n -> Paragraphs] : n \in 1..MaxParas}}

\* TextSplitter(chunk_size) and the arguments of one split_by_tokens call on
\* a text of one to MaxParas paragraphs.
ParaSplitInit ==
    /\ OrchIdle
    /\ StageIdle
    /\ spc = "ready"
    /\ text \in ParagraphTexts
    /\ chunk_size \in 1..MaxBudget
    /\ client \in {"none", "api", "apifail"}
    /\ chunks = <<>>

ParaSplitNext == call_split_by_tokens

ParaSplitSpec == ParaSplitInit /\ [][ParaSplitNext]_vars

\* The letters of a text in their order: no whitespace, no punctuation.
Letters(t) == SelectSeq(t, LAMBDA c : ~IsSpace(c) /\ ~IsTerminator(c))

\* The paragraphs that stand in the chunks, in chunk order.
ChunkParagraphs ==
    Flatten([i \in 1..Len(chunks) |-> split_by_paragraphs(chunks[i])])

\* Chunk k is made of the paragraphs a..b of the text, and chunk k + 1 of the
\* paragraphs from b + 1 on.
ConsecutiveParagraphChunks(k, a, b) ==
    LET ps == split_by_paragraphs(text) IN
    /\ chunks[k] = JoinParagraphs(SubSeq(ps, a, b))
    /\ \E c \in (b + 1)..Len(ps) :
         chunks[k + 1] = JoinParagraphs(SubSeq(ps, b + 1, c))

\* C24: the paragraph accumulation of split_by_tokens is greedy and keeps the
\* order. The content of the chunks, in chunk order, is the content of the
\* text in its order; when no paragraph needs a sentence split, the
\* paragraphs of the chunks are the paragraphs of the text, in order; and for
\* two consecutive chunks made of paragraphs, the earlier chunk joined by a
\* blank line with the first paragraph of the later one exceeds the budget.
C24_GreedyInOrder ==
    spc = "done" =>
        LET ps == split_by_paragraphs(text) IN
        /\ Letters(Concat(chunks)) = Letters(text)
        /\ (\A i \in 1..Len(ps) : ~Exceeds(client, ps[i], chunk_size))
               => ChunkParagraphs = ps
        /\ \A k \in 1..(Len(chunks) - 1) :
             \A a \in 1..Len(ps) : \A b \in a..(Len(ps) - 1) :
                 ConsecutiveParagraphChunks(k, a, b) =>
                     Exceeds(client,
                             JoinParagraphs(SubSeq(ps, a, b + 1)), chunk_size)

\* C24's example at this scale: three paragraphs of estimate 2 with budget 3
\* give three chunks of one paragraph.
C24_Witness ==
    /\ spc = "done"
    /\ client = "none"
    /\ chunk_size = 3
    /\ split_by_paragraphs(text) = <<<<"c", "c", "c">>, <<"c", "c", "c">>, <<"c", "c", "c">>>>
    /\ chunks = split_by_paragraphs(text)

\* C24's other case: two paragraphs accumulated in one chunk, closed before
\* the third, which did not fit.
C24_AccumulatedWitness ==
    /\ spc = "done"
    /\ Len(split_by_paragraphs(text)) = 3
    /\ Len(chunks) = 2
    /\ chunks[1] = JoinParagraphs(SubSeq(split_by_paragraphs(text), 1, 2))
    /\ chunks[2] = split_by_paragraphs(text)[3]
    /\ ~Exceeds(client, chunks[2], chunk_size)

(***************************************************************************)
(* _remove_introduction on one fragment (RemoveIntroSpec)                  *)
(***************************************************************************)
MaxFragLen == 5

\* The characters of a fragment: a letter, the intro marker in lower and in
\* upper case, a space and the line break.
FragChars == {"a", "h", "H", " ", "N"}

FragTexts == UNION {[1..n -> FragChars] : n \in 0..MaxFragLen}

\* The argument of one _remove_introduction call.
RemoveIntroInit ==
    /\ NotScriptIdle
    /\ bpc = "intro"
    /\ content_tokens = 0
    /\ script_parts \in {<<f>> : f \in FragTexts}
    /\ calls = 0
    /\ script = <<>>
    /\ did_split = FALSE
    /\ nchunks = 0
    /\ did_merge = FALSE
    /\ script_written = FALSE
    /\ call_log = <<>>

\* The call _remove_introduction(script).
call_remove_introduction ==
    /\ bpc = "intro"
    /\ script' = remove_introduction(script_parts[1])
    /\ bpc' = "cleaned"
    /\ UNCHANGED <<content_tokens, script_parts, calls, did_split, nchunks,
                   did_merge, script_written, call_log>>
    /\ UNCHANGED notScript

RemoveIntroNext == call_remove_introduction

RemoveIntroSpec == RemoveIntroInit /\ [][RemoveIntroNext]_vars

\* A line that is blank or holds an intro marker, in either case.
IntroOrBlank(line) ==
    \/ \A i \in 1..Len(line) : line[i] \in {" ", "N"}
    \/ \E i \in 1..Len(line) : line[i] \in {"h", "H"}

\* C25: _remove_introduction returns the fragment from its first line that is
\* not empty and holds no intro marker in any case, discarding every line
\* before it, blank or intro; when there is no such line the fragment is
\* returned unchanged; what follows the new start is kept as it is, marker
\* lines included. The result is the fragment cut after n characters, at a
\* line start, where all lines cut off are blank or intro and the first line
\* kept is neither; n = 0 when every line is blank or intro.
C25_RemoveIntroduction ==
    bpc = "cleaned" =>
        LET part == script_parts[1]
            lines == split_lines(part)
        IN  IF \A i \in 1..Len(lines) : IntroOrBlank(lines[i])
            THEN script = part
            ELSE \E n \in 0..Len(part) :
                   /\ script = SubSeq(part, n + 1, Len(part))
                   /\ n > 0 => part[n] = "N"
                   /\ n > 0 =>
                        \A i \in 1..Len(split_lines(SubSeq(part, 1, n - 1))) :
                            IntroOrBlank(split_lines(SubSeq(part, 1, n - 1))[i])
                   /\ ~IntroOrBlank(split_lines(script)[1])

\* C25's case: an intro line in upper case was discarded, and a marker line
\* after the new start was kept.
C25_Witness ==
    /\ bpc = "cleaned"
    /\ script_parts[1] = <<"H", "N", "a", "N", "h">>
    /\ script = <<"a", "N", "h">>

\* C25's other case: every line is blank or intro, the fragment is unchanged.
C25_UnchangedWitness ==
    /\ bpc = "cleaned"
    /\ script_parts[1] = <<"h", "N", " ", "N", "H">>
    /\ script = script_parts[1]

(***************************************************************************)
(* More claims about build_script (checked under ScriptSpec)               *)
(***************************************************************************)
C26_state ==
    did_split =>
        \* the calls are for the chunks 1, 2, ... in this order, one each
        /\ calls = Len(call_log)
        /\ calls <= nchunks
        /\ \A k \in 1..Len(call_log) : call_log[k].chunk = k
        \* only the last call may have failed, and then the stage raised
        /\ \A k \in 1..Len(call_log) :
             call_log[k].text = <<>> => (k = Len(call_log) /\ bpc = "raised")
        \* the fragments are the texts returned, in the order of their chunks
        /\ Len(script_parts) = Len(SelectSeq(call_log, LAMBDA c : c.text # <<>>))
        /\ \A k \in 1..Len(script_parts) : script_parts[k] = call_log[k].text
        \* the merge and the file come after one successful call per chunk
        /\ (did_merge \/ script_written) =>
               (calls = nchunks /\ Len(script_parts) = nchunks)
        /\ did_merge => script = merge_script_parts(script_parts)
        /\ bpc = "raised" => (~did_merge /\ ~script_written)

C26_step ==
    \* after a failed call: no call for a later chunk, no merge, no file
    /\ bpc = "raised" => UNCHANGED scriptVars
    \* one call at a time, and the merge takes the fragments as they stand
    /\ did_split => calls' \in {calls, calls + 1}
    /\ (did_split /\ did_merge') => script_parts' = script_parts

\* C26: in the chunked script stage the generation calls are issued one at a
\* time in chunk order, exactly one call per chunk, and the merge receives the
\* fragments in the order of their chunks; when the call for a chunk fails,
\* no call is made for a later chunk and no script file is written.
C26_SequentialChunks == [](C26_state) /\ [][C26_step]_vars

\* C26's case: the script of three chunks was written after three calls.
C26_Witness ==
    /\ bpc = "done"
    /\ did_split
    /\ nchunks = 3
    /\ Len(call_log) = 3
    /\ script_parts[1] # script_parts[2]
    /\ script_written

\* C26's other case: the call for the second of three chunks failed.
C26_FailedWitness ==
    /\ bpc = "raised"
    /\ nchunks = 3
    /\ Len(call_log) = 2
    /\ Len(script_parts) = 1
    /\ ~script_written

(***************************************************************************)
(* More claims about the retry loop (checked under RetrySpec)              *)
(***************************************************************************)
\* C27: for a generation call with max-retry 3 whose attempts all fail, the
\* backoff delays are 0, 2 and 4 time units: no delay before the first
\* attempt, 2 before the second and 4 before the third, and no delay after
\* the final failed attempt.
C27_BackoffTwoFour ==
    (rpc = "raised" /\ max_retries = DefaultMaxRetries) => waits = <<2, 4>>

C27_state ==
    max_retries >= 1 =>
        \* the delay before attempt k + 1 is 2 ^ (k - 1), k counted from 1
        /\ \A k \in 1..Len(waits) : waits[k] = 2 ^ (k - 1)
        \* one delay after every failed attempt that is followed by another
        /\ rpc = "loop" => Len(waits) = Len(responses)
        /\ rpc = "returned" => Len(waits) = Len(responses) - 1
        \* none after the final failed attempt
        /\ rpc = "raised" => Len(waits) = max_retries - 1
        /\ (rpc = "raised" /\ max_retries = DefaultMaxRetries) => waits = <<1, 2>>

C27_step == (rpc \in {"returned", "raised"}) => (waits' = waits)

\* C27 as the loop behaves: the delays are 0, 1 and 2 time units, none before
\* the first attempt, 1 before the second and 2 before the third (2 ^ attempt
\* with the failed attempt counted from 0), and none after the final failed
\* attempt.
C27_BackoffOneTwo == [](C27_state) /\ [][C27_step]_vars

\* C27's case: a call with max-retry 3 failed on all three attempts.
C27_Witness ==
    /\ rpc = "raised"
    /\ rclient = "llm"
    /\ max_retries = DefaultMaxRetries
    /\ Len(responses) = 3
    /\ Len(waits) = 2

(***************************************************************************)
(* Claim about the reuse of an orchestrator (checked under ReuseSpec)      *)
(***************************************************************************)
\* An entry of the ledger that points into another directory than the one of
\* the call in progress.
StaleEntry(k) == results[k] # None /\ results[k].dir # output_dir

\* C28: each run starts with an empty ledger and keeps no state of an earlier
\* run: when run_full_pipeline is called a second time on the same
\* orchestrator, every ledger entry is unset at the start of the second run,
\* and at its end no entry points to an artifact of the first run's output
\* directory.
C28_FreshLedger ==
    run = "second" =>
        /\ pc = "ingest" => results = EmptyLedger
        /\ pc \in {"done", "aborted"} => \A k \in Kinds : ~StaleEntry(k)

\* C28's failing case: the second run returned with the audio of the first
\* run in its ledger, its own audio stage having raised, and reported it as
\* produced.
C28_StaleAudio ==
    /\ run = "second"
    /\ pc = "done"
    /\ outcome["audio"] = "failed"
    /\ StaleEntry("audio")
    /\ results["script"].dir = output_dir
    /\ summary["audio"] = "produced"

(***************************************************************************)
(* More claims about the orchestrator (checked under Spec)                 *)
(***************************************************************************)
C29_state ==
    outcome["flashcards"] = "failed" =>
        \* build_questions raised and the run aborted before the audio stage
        /\ pc = "aborted"
        /\ error = "questions"
        /\ \A i \in 1..Len(started) : started[i] \notin {"audio", "email", "summary"}
        \* both entries stay unset
        /\ results["questions"] = None
        /\ results["flashcards"] = None
        \* although questions.md was written, and flashcards.yaml was not
        /\ Path(output_dir, "questions.md") \in files
        /\ Path(output_dir, "flashcards.yaml") \notin files

C29_step ==
    (results'["questions"] # results["questions"]) =>
        \* after build_questions returned, with the flashcards assignment
        /\ pc = "questions" /\ pc' = "audio"
        /\ results'["questions"] = Path(output_dir, "questions.md")
        /\ results'["questions"] \in files'
        /\ wrote'["questions"] = Append(wrote["questions"], "questions")
        /\ wrote'["flashcards"] = Append(wrote["flashcards"], "questions")
        /\ outcome'["flashcards"] \in {"ok", "skipped"}

\* C29: the questions stage is all-or-nothing for the ledger. When the
\* flashcard generation fails, build_questions raises, the run aborts before
\* the audio stage and the questions and flashcards entries stay unset,
\* although questions.md is already on disk; the questions entry is set only
\* together with the assignment of the flashcards entry, after build_questions
\* returned.
C29_QuestionsAllOrNothing == [](C29_state) /\ [][C29_step]_vars

\* C29's case: the flashcard generation failed after questions.md was written.
C29_Witness ==
    /\ pc = "aborted"
    /\ outcome["flashcards"] = "failed"
    /\ outcome["questions"] = "failed"
    /\ Path(output_dir, "questions.md") \in files
    /\ results["questions"] = None
    /\ results["explanation"] # None

(***************************************************************************)
(* RunSpec: one run_full_pipeline call at the granularity of the           *)
(* generation and synthesis calls, each of them the retry loop of          *)
(* RetrySpec with the default max_retries.                                 *)
(***************************************************************************)
\* The stages that call LLMClient.generate; their failure aborts the run.
LlmStages == {"script", "explainer", "questions", "flashcards"}

\* More calls than any run makes: the counters stay below it.
CallCap == MaxChunks + MaxScriptChunks + 4

RunInit ==
    /\ OrchIdle
    /\ SplitIdle
    /\ ScriptIdle
    /\ AudioIdle
    /\ FlashIdle
    /\ RetryIdle
    /\ gpc = "ingest"
    /\ script_calls \in 0..MaxChunks
    /\ narration_chunks \in 0..MaxScriptChunks
    /\ calls_made = 0
    /\ gen_calls = 0
    /\ gen_attempts = 0
    /\ gerror = "none"

\* What the run-level steps leave alone.
notRun == <<orchVars, splitVars, scriptVars, audioVars, flashVars>>

\* The call is over: its local state is gone.
call_over ==
    /\ rpc' = "off"
    /\ rclient' = "none"
    /\ max_retries' = 0
    /\ attempt' = 0
    /\ responses' = <<>>
    /\ waits' = <<>>
    /\ rresult' = NoResult
    /\ rerror' = NoError

\* A call of generate / generate_audio begins, max_retries left to its default.
call_begins(cl) ==
    /\ rpc = "off"
    /\ gen_calls < CallCap
    /\ rpc' = "loop"
    /\ rclient' = cl
    /\ max_retries' = DefaultMaxRetries
    /\ attempt' = 0
    /\ responses' = <<>>
    /\ waits' = <<>>
    /\ rresult' = NoResult
    /\ rerror' = NoError
    /\ gen_calls' = gen_calls + 1

\* self.doc = self.ingest_step(input_file): no generation call.
run_ingest ==
    /\ gpc = "ingest"
    /\ \/ gpc' = "script" /\ UNCHANGED gerror
       \/ gpc' = "aborted" /\ gerror' = "ingest"
    /\ UNCHANGED <<script_calls, narration_chunks, calls_made, gen_calls, gen_attempts>>
    /\ UNCHANGED <<retryVars, notRun>>

\* llm_client.generate(...) is called: by build_script for the next chunk
\* (or for the whole content), by build_explainer, by build_questions, by
\* _generate_flashcard_yaml.
begin_generate ==
    /\ gpc \in LlmStages
    /\ gpc = "script" => calls_made < script_calls
    /\ call_begins("llm")
    /\ UNCHANGED <<gpc, script_calls, narration_chunks, calls_made, gen_attempts, gerror>>
    /\ UNCHANGED notRun

\* Mutant of after_raise: the stage is entered again after its exception.
after_raise_again(stage) == stage

\* The exception of generate leaves the stage function, its step and the try
\* block of run_full_pipeline.
after_raise(stage) == "aborted"

\* generate returned its text: the loop of build_script goes on, the other
\* stages go on to what follows; build_questions calls
\* _generate_flashcard_yaml only when the keyword section is not empty.
generate_returned ==
    /\ rpc = "returned"
    /\ rclient = "llm"
    /\ gen_attempts' = gen_attempts + Len(responses)
    /\ call_over
    /\ CASE gpc = "script" ->
              /\ calls_made' = calls_made + 1
              /\ UNCHANGED gpc
         [] gpc = "explainer" ->
              /\ gpc' = "questions"
              /\ UNCHANGED calls_made
         [] gpc = "questions" ->
              /\ \E has_keyword_qa \in BOOLEAN :
                   gpc' = IF has_keyword_qa THEN "flashcards" ELSE "audio"
              /\ UNCHANGED calls_made
         [] gpc = "flashcards" ->
              /\ gpc' = "audio"
              /\ UNCHANGED calls_made
    /\ UNCHANGED <<script_calls, narration_chunks, gen_calls, gerror>>
    /\ UNCHANGED notRun

\* generate raised after its last attempt.
generate_raised ==
    /\ rpc = "raised"
    /\ rclient = "llm"
    /\ gen_attempts' = gen_attempts + Len(responses)
    /\ call_over
    /\ gpc' = after_raise(gpc)
    /\ gerror' = gpc
    /\ UNCHANGED <<script_calls, narration_chunks, calls_made, gen_calls>>
    /\ UNCHANGED notRun

\* The loop of build_script is over (or its single call returned): the
\* script is merged, saved and stored, the explainer step follows.
script_finished ==
    /\ gpc = "script"
    /\ rpc = "off"
    /\ calls_made = script_calls
    /\ gpc' = "explainer"
    /\ calls_made' = 0
    /\ UNCHANGED <<script_calls, narration_chunks, gen_calls, gen_attempts, gerror>>
    /\ UNCHANGED <<retryVars, notRun>>

\* tts_client.generate_audio(...) is called for the next chunk of the script.
begin_generate_audio ==
    /\ gpc = "audio"
    /\ calls_made < narration_chunks
    /\ call_begins("tts")
    /\ UNCHANGED <<gpc, script_calls, narration_chunks, calls_made, gen_attempts, gerror>>
    /\ UNCHANGED notRun

\* generate_audio returned its files, or raised and the except clause of the
\* loop went on to the next chunk.
generate_audio_ended ==
    /\ rpc \in {"returned", "raised"}
    /\ rclient = "tts"
    /\ gen_attempts' = gen_attempts + Len(responses)
    /\ call_over
    /\ calls_made' = calls_made + 1
    /\ UNCHANGED <<gpc, script_calls, narration_chunks, gen_calls, gerror>>
    /\ UNCHANGED notRun

\* The loop of build_audio is over: combination, conversion and clean-up
\* make no generation call, and nothing of build_audio leaves its step.
audio_finished ==
    /\ gpc = "audio"
    /\ rpc = "off"
    /\ calls_made = narration_chunks
    /\ gpc' = "email"
    /\ calls_made' = 0
    /\ UNCHANGED <<script_calls, narration_chunks, gen_calls, gen_attempts, gerror>>
    /\ UNCHANGED <<retryVars, notRun>>

\* send_email_step, if asked for: it catches every exception.
run_email ==
    /\ gpc = "email"
    /\ gpc' = "summary"
    /\ UNCHANGED <<script_calls, narration_chunks, calls_made, gen_calls, gen_attempts, gerror>>
    /\ UNCHANGED <<retryVars, notRun>>

\* _print_summary, then the output directory is returned.
run_summary ==
    /\ gpc = "summary"
    /\ gpc' = "done"
    /\ UNCHANGED <<script_calls, narration_chunks, calls_made, gen_calls, gen_attempts, gerror>>
    /\ UNCHANGED <<retryVars, notRun>>

RunNext ==
    \/ run_ingest
    \/ begin_generate
    \/ generate_attempt
    \/ generate_returned
    \/ generate_raised
    \/ script_finished
    \/ begin_generate_audio
    \/ generate_audio_attempt
    \/ generate_audio_ended
    \/ audio_finished
    \/ run_email
    \/ run_summary

\* The run is one sequential flow and every external call returns or fails
\* in finite time: a step that can be taken is eventually taken.
RunSpec == RunInit /\ [][RunNext]_vars /\ WF_vars(RunNext)

(***************************************************************************)
(* Claim about termination (checked under RunSpec)                         *)
(***************************************************************************)
\* The attempts made so far, those of the call in progress included.
RunAttempts == gen_attempts + Len(responses)

C30_bound ==
    \* one call per script chunk, one for the explainer, at most two for the
    \* questions, one per narration chunk
    /\ gen_calls <= script_calls + 1 + 2 + narration_chunks
    \* and at most the maximum attempt count for each of them
    /\ RunAttempts <= DefaultMaxRetries * gen_calls
    \* the run ends by the return after the summary or by the error of a
    \* hard-gating stage
    /\ gpc = "done" => gerror = "none"
    /\ gpc = "aborted" => gerror \in {"ingest"} \cup LlmStages

C30_ended == gpc \in {"done", "aborted"}

\* C30: every external call returning or failing in finite time, every run
\* terminates: it eventually returns the output directory after the summary
\* or raises the error of a hard-gating stage; and the generation and
\* synthesis attempts of a run are at most the maximum attempt count times
\* the number of calls (one per script chunk, one for the explainer, at most
\* two for the questions, one per narration chunk).
C30_RunTerminates == [](C30_bound) /\ <>(C30_ended)

\* C30's case: a run with the most calls, every one of them failing twice
\* before it succeeded, returned.
C30_Witness ==
    /\ gpc = "done"
    /\ script_calls = MaxChunks
    /\ narration_chunks = MaxScriptChunks
    /\ gen_calls = script_calls + 3 + narration_chunks
    /\ gen_attempts = DefaultMaxRetries * gen_calls

\* C30's other case: the flashcard call failed on all its attempts and the
\* run raised.
C30_AbortedWitness ==
    /\ gpc = "aborted"
    /\ gerror = "flashcards"
    /\ gen_calls = script_calls + 3
    /\ gen_attempts >= DefaultMaxRetries

====
